---- MODULE Spec2Model ----
(***************************************************************************)
(* CP-COACH: the adaptive recommendation engine (app/recommender.py) and   *)
(* the handlers that drive it (app/api_routes.py), as a state machine over *)
(* the rows of the solved_problems, skipped_problems and user_skills       *)
(* tables of one user.                                                     *)
(*                                                                         *)
(* Timestamps are integers (ticks of half a second), so that the           *)
(* "utcnow() + 1 second" of skip_problem is two ticks ahead of the clock.  *)
(* Tables are sequences of rows in insertion (rowid) order.  Columns that  *)
(* no modelled query reads (time_taken_seconds, last_practiced_at, name,   *)
(* url) are left out.                                                      *)
(***************************************************************************)
EXTENDS Integers, Sequences, FiniteSets, TLC

VARIABLES rating, solved, skipped, skills, now, calls, rec, rk, sel, stats, an, cache, callers, api

vars == <<rating, solved, skipped, skills, now, calls, rec, rk, sel, stats, an, cache, callers, api>>
\* The handle cache and the callers of the Codeforces client.
cache_vars == <<cache, callers, api>>

(***************************************************************************)
(* Program constants                                                       *)
(***************************************************************************)
MIN_TARGET_RATING == 800
MAX_TARGET_RATING == 2400
DIFFICULTY_WINDOW == 150
RECOMMENDATION_LIMIT == 5
SKIP_COOLDOWN_COUNT == 10
AI_CANDIDATE_LIMIT == 5
SKIP_AHEAD == 2
DATETIME_MIN == -1

(***************************************************************************)
(* Bounds of the model                                                     *)
(***************************************************************************)
MaxTime == 4
MaxCalls == 2
MaxRankLen == 4

None == [none |-> TRUE]

(***************************************************************************)
(* Python builtins used by the code                                        *)
(***************************************************************************)
Max(a, b) == IF a >= b THEN a ELSE b
Min(a, b) == IF a <= b THEN a ELSE b
Abs(a) == IF a >= 0 THEN a ELSE 0 - a
Range(s) == {s[i] : i \in 1..Len(s)}

\* s[:limit]
Slice(s, limit) ==
    IF limit >= 0 THEN SubSeq(s, 1, Min(limit, Len(s)))
    ELSE SubSeq(s, 1, Max(0, Len(s) + limit))

\* Tuple comparison of two-component sort keys.
KeyLess(a, b) == a[1] < b[1] \/ (a[1] = b[1] /\ a[2] < b[2])

RECURSIVE Insert(_, _, _)
Insert(x, s, key) ==
    IF s = <<>> THEN <<x>>
    ELSE IF KeyLess(key[x], key[Head(s)]) THEN <<x>> \o s
    ELSE <<Head(s)>> \o Insert(x, Tail(s), key)

\* sorted(s, key=...): stable, ascending.
RECURSIVE Sorted(_, _)
Sorted(s, key) ==
    IF s = <<>> THEN <<>>
    ELSE Insert(s[Len(s)], Sorted(SubSeq(s, 1, Len(s) - 1), key), key)

\* str.lower() on the topic strings the model uses.
Lower(t) ==
    CASE t = "DP" -> "dp"
      [] t = "Graph" -> "graph"
      [] t = "Tourist" -> "tourist"
      [] OTHER -> t

\* needle is a substring of hay, on the strings the model uses.
IsSubstring(needle, hay) ==
    \/ needle = hay
    \/ needle = ""
    \/ needle = "graph" /\ hay = "graphs"

(***************************************************************************)
(* The problems table (filled at startup, never changed by the handlers).  *)
(* Problems 4..13 belong to contest 3.                                     *)
(***************************************************************************)
Problem(id, r, tags, cid, idx) ==
    [id |-> id, rating |-> r, tags |-> tags, contest_id |-> cid, problem_index |-> idx]

Catalog ==
    << Problem(1, 1400, <<"dp">>, 1, "A"),
       Problem(2, 1300, <<"dp", "graphs">>, 1, "B"),
       Problem(3, 2600, <<"graphs">>, 2, "A"),
       Problem(4, 800, <<"dp">>, 3, "A"),
       Problem(5, 1000, <<"dp">>, 3, "B"),
       Problem(6, 1100, <<"dp">>, 3, "C"),
       Problem(7, 1200, <<"dp">>, 3, "D"),
       Problem(8, 1250, <<"dp">>, 3, "E"),
       Problem(9, 1350, <<"dp">>, 3, "F"),
       Problem(10, 1350, <<"dp">>, 3, "G"),
       Problem(11, 1500, <<"dp">>, 3, "H"),
       Problem(12, 1650, <<"dp">>, 3, "I"),
       Problem(13, 2500, <<"dp">>, 3, "J") >>

\* db.query(Problem).filter(Problem.id == problem_id).first()
ProblemById(id) == Catalog[id]

\* Problem.tags.ilike("%topic%"): the topic occurs in the comma-joined tags.
TagsLike(p, topic) == \E i \in 1..Len(p.tags) : IsSubstring(Lower(topic), p.tags[i])

(***************************************************************************)
(* STEP 1: target difficulty                                               *)
(***************************************************************************)
\* order_by(desc(col)).first(): a row with the greatest timestamp, None on an
\* empty table.  Among rows with equal timestamps the database may return any.
LastSolves ==
    IF solved = <<>> THEN {None}
    ELSE {s \in Range(solved) : \A o \in Range(solved) : o.solved_at <= s.solved_at}

LastSkips ==
    IF skipped = <<>> THEN {None}
    ELSE {s \in Range(skipped) : \A o \in Range(skipped) : o.skipped_at <= s.skipped_at}

ClampNoUpper(target) == Max(MIN_TARGET_RATING, target)

\* max(MIN_TARGET_RATING, min(MAX_TARGET_RATING, target))
Clamp(target) == Max(MIN_TARGET_RATING, Min(MAX_TARGET_RATING, target))

SolveTargetFlat(last_solve, current_rating) ==
    LET base_rating == ProblemById(last_solve.problem_id).rating
        proven_level == Max(current_rating, base_rating)
    IN  IF last_solve.verdict = "AC" THEN proven_level + 100 ELSE proven_level - 50

\* The branch of calculate_target_rating taken when the last action was a solve.
SolveTarget(last_solve, current_rating) ==
    LET base_rating == ProblemById(last_solve.problem_id).rating
        proven_level == Max(current_rating, base_rating)
    IN  IF last_solve.verdict = "AC"
        THEN IF last_solve.is_slow_solve THEN proven_level + 0 ELSE proven_level + 100
        ELSE proven_level - 50

SkipTargetFromUser(last_skip, current_rating) ==
    LET skip_base_rating == ProblemById(last_skip.problem_id).rating
    IN  IF last_skip.feedback = "too_easy"
        THEN Max(current_rating, skip_base_rating) + 100
        ELSE IF last_skip.feedback = "too_hard"
        THEN current_rating - 100
        ELSE current_rating

\* The branch of calculate_target_rating taken when the last action was a skip.
SkipTarget(last_skip, current_rating) ==
    LET skip_base_rating == ProblemById(last_skip.problem_id).rating
    IN  IF last_skip.feedback = "too_easy"
        THEN Max(current_rating, skip_base_rating) + 100
        ELSE IF last_skip.feedback = "too_hard"
        THEN skip_base_rating - 100
        ELSE current_rating

SolveIsLaterOrEqual(solve_time, skip_time) ==
    solve_time >= skip_time /\ solve_time # DATETIME_MIN

\* solve_time > skip_time
SolveIsLater(solve_time, skip_time) == solve_time > skip_time

calculate_target_rating(last_solve, last_skip, current_rating) ==
    LET solve_time == IF last_solve # None THEN last_solve.solved_at ELSE DATETIME_MIN
        skip_time == IF last_skip # None THEN last_skip.skipped_at ELSE DATETIME_MIN
        target ==
            IF SolveIsLater(solve_time, skip_time)
            THEN SolveTarget(last_solve, current_rating)
            ELSE IF skip_time > solve_time
            THEN SkipTarget(last_skip, current_rating)
            ELSE current_rating
    IN  Clamp(target)

(***************************************************************************)
(* STEP 2-5: filtering and ranking                                         *)
(***************************************************************************)
\* db.query(Problem)...all(): the matching rows of the table, in one of the
\* row orders the database may use.
QueryOrders == {"asc", "desc"}

Reverse(s) == [i \in 1..Len(s) |-> s[Len(s) + 1 - i]]

ProblemsIn(order) == IF order = "asc" THEN Catalog ELSE Reverse(Catalog)

filter_problems_by_topic_and_difficulty(order, topic, target_rating, window) ==
    LET min_rating == target_rating - window
        max_rating == target_rating + window
        Keep(p) == /\ TagsLike(p, topic)
                   /\ p.rating >= min_rating
                   /\ p.rating <= max_rating
    IN  SelectSeq(ProblemsIn(order), Keep)

get_solved_problem_ids == {solved[i].problem_id : i \in 1..Len(solved)}

exclude_solved_problems_none(problems, solved_ids) == problems

exclude_solved_problems(problems, solved_ids) ==
    LET Keep(p) == p.id \notin solved_ids
    IN  IF solved_ids = {} THEN problems ELSE SelectSeq(problems, Keep)

\* The solved_at values, greatest first (order_by(desc(solved_at))).
SolvedAtDesc ==
    LET times == [i \in 1..Len(solved) |-> solved[i].solved_at]
        key == [t \in Range(times) |-> <<0 - t, 0>>]
    IN  Sorted(times, key)

get_recently_skipped_ids ==
    LET recent_solves == Slice(SolvedAtDesc, SKIP_COOLDOWN_COUNT)
    IN  IF Len(recent_solves) < SKIP_COOLDOWN_COUNT
        THEN {skipped[i].problem_id : i \in 1..Len(skipped)}
        ELSE LET cutoff_time == recent_solves[Len(recent_solves)]
             IN  {skipped[i].problem_id :
                    i \in {j \in 1..Len(skipped) : skipped[j].skipped_at > cutoff_time}}

rank_problems_by_distance_unstable(problems, target_rating, limit) ==
    LET key == [p \in Range(problems) |-> <<Abs(p.rating - target_rating), 0>>]
    IN  Slice(Sorted(problems, key), limit)

rank_problems_by_distance(problems, target_rating, limit) ==
    LET key == [p \in Range(problems) |-> <<Abs(p.rating - target_rating), p.id>>]
    IN  Slice(Sorted(problems, key), limit)

(***************************************************************************)
(* STEP 6: selection among the ranked candidates (app/ai_coach.py).  `ai`  *)
(* is what the external selector does: "nokey" (no API key), "error" (the  *)
(* call raises), "noindex" (the answer holds no number) or the index it    *)
(* answers with.                                                           *)
(***************************************************************************)
AIOutcomes ==
    {[kind |-> k, index |-> 0] : k \in {"nokey", "error", "noindex"}}
        \cup {[kind |-> "index", index |-> i] : i \in {1, AI_CANDIDATE_LIMIT}}

select_best_problem_last_on_error(candidates, ai) ==
    IF candidates = <<>> THEN None
    ELSE IF ai.kind = "nokey" THEN candidates[1]
    ELSE IF ai.kind = "error" THEN candidates[Len(candidates)]
    ELSE IF ai.kind = "index" /\ 0 <= ai.index /\ ai.index < Len(candidates)
    THEN candidates[ai.index + 1]
    ELSE candidates[1]

select_best_problem(candidates, ai) ==
    IF candidates = <<>> THEN None
    ELSE IF ai.kind = "nokey" THEN candidates[1]
    ELSE IF ai.kind = "error" THEN candidates[1]
    ELSE IF ai.kind = "index" /\ 0 <= ai.index /\ ai.index < Len(candidates)
    THEN candidates[ai.index + 1]
    ELSE candidates[1]

fallback_keeps_solved(order, topic, solved_ids, target_rating) ==
    LET Keep(p) == TagsLike(p, topic)
        problems == SelectSeq(ProblemsIn(order), Keep)
        key == [p \in Range(problems) |-> <<p.rating, 0>>]
    IN  [problems |-> Slice(Sorted(problems, key), RECOMMENDATION_LIMIT),
         message |-> [min_range |-> Max(MIN_TARGET_RATING, target_rating - DIFFICULTY_WINDOW),
                      max_range |-> Min(MAX_TARGET_RATING, target_rating + DIFFICULTY_WINDOW)]]

\* The message is modelled by the two numbers it is formatted from.
fallback_to_easiest(order, topic, solved_ids, target_rating) ==
    LET Keep(p) == /\ TagsLike(p, topic)
                   /\ (solved_ids # {} => p.id \notin solved_ids)
        problems == SelectSeq(ProblemsIn(order), Keep)
        key == [p \in Range(problems) |-> <<p.rating, 0>>]
    IN  [problems |-> Slice(Sorted(problems, key), RECOMMENDATION_LIMIT),
         message |-> [min_range |-> Max(MIN_TARGET_RATING, target_rating - DIFFICULTY_WINDOW),
                      max_range |-> Min(MAX_TARGET_RATING, target_rating + DIFFICULTY_WINDOW)]]

(***************************************************************************)
(* MAIN RECOMMENDATION FUNCTION                                            *)
(***************************************************************************)
\* db.query(UserSkill).filter(topic == ...).first(): the first matching row.
SkillRecord(table, topic) ==
    LET hits == {i \in 1..Len(table) : table[i].topic = topic}
    IN  IF hits = {} THEN None
        ELSE table[CHOOSE i \in hits : \A j \in hits : i <= j]

Ids(problems) == [i \in 1..Len(problems) |-> problems[i].id]

target_offset_first(base_target, topic_max, rating_offset) ==
    Clamp(Max(base_target + rating_offset, topic_max))

\* Steps 1b and 1c: the per-topic floor, then the manual offset, then the clamp.
target_with_floor(base_target, topic_max, rating_offset) ==
    Clamp(Max(base_target, topic_max) + rating_offset)

\* recommend_problems up to the ranking (steps 1 to 5).
ranked_candidates(topic, rating_offset, order, last_solve, last_skip) ==
    LET base_target == calculate_target_rating(last_solve, last_skip, rating)
        skill_record == SkillRecord(skills, Lower(topic))
        topic_max == IF skill_record # None THEN skill_record.max_solved_rating ELSE 0
        target_rating == target_with_floor(base_target, topic_max, rating_offset)
        found == filter_problems_by_topic_and_difficulty(order, topic, target_rating,
                                                         DIFFICULTY_WINDOW)
        solved_ids == get_solved_problem_ids
        unsolved == exclude_solved_problems(found, solved_ids)
        skipped_ids == get_recently_skipped_ids
        NotSkipped(p) == p.id \notin skipped_ids
        candidates == SelectSeq(unsolved, NotSkipped)
    IN  [base_target |-> base_target,
         target_rating |-> target_rating,
         solved_ids |-> solved_ids,
         ranked |-> rank_problems_by_distance(candidates, target_rating,
                                              AI_CANDIDATE_LIMIT)]

\* recommend_problems from the selection on (step 6 and the fallback); c is
\* the result of ranked_candidates.
recommend_problems(c, topic, rating_offset, order, ai) ==
    LET best_problem == select_best_problem(c.ranked, ai)
        final_recs == IF best_problem # None THEN <<best_problem>> ELSE <<>>
        fb == fallback_to_easiest(order, topic, c.solved_ids, c.target_rating)
    IN  [op |-> "recommend",
         topic |-> topic,
         rating_offset |-> rating_offset,
         base_target |-> c.base_target,
         target_rating |-> c.target_rating,
         problems |-> IF final_recs = <<>> THEN Ids(fb.problems) ELSE Ids(final_recs),
         message |-> IF final_recs = <<>> THEN fb.message ELSE None]

(***************************************************************************)
(* SOLVE TRACKING                                                          *)
(***************************************************************************)
\* query(...).first(): the position of the first row among the matching
\* positions hits of the table, 0 when there is none.
FirstIndex(table, hits) ==
    IF hits = {} THEN 0 ELSE CHOOSE i \in hits : \A j \in hits : i <= j

\* The loop of _update_user_skills_with_rating.  The session does not
\* autoflush (database.py), so the query of one iteration sees the rows of
\* the table, with the changes made to them, but not the rows added by an
\* earlier iteration; those are inserted at the commit.
RECURSIVE UpdateSkillsLoop(_, _, _, _)
UpdateSkillsLoop(table, pending, topics, r) ==
    IF topics = <<>> THEN table \o pending
    ELSE LET topic == Head(topics)
             IsTopic(row) == row.topic = topic
             i == FirstIndex(table, {pos \in 1..Len(table) : IsTopic(table[pos])})
         IN  IF i # 0
             THEN UpdateSkillsLoop(
                    [table EXCEPT ![i] =
                        [topic |-> topic,
                         solve_count |-> table[i].solve_count + 1,
                         max_solved_rating |->
                            IF r > table[i].max_solved_rating
                            THEN r ELSE table[i].max_solved_rating]],
                    pending, Tail(topics), r)
             ELSE UpdateSkillsLoop(
                    table,
                    Append(pending, [topic |-> topic, solve_count |-> 1,
                                     max_solved_rating |-> r]),
                    Tail(topics), r)

update_user_skills_overwriting(table, tags, r) ==
    LET t == UpdateSkillsLoop(table, <<>>, tags, r)
    IN  [i \in 1..Len(t) |->
            IF \E j \in 1..Len(tags) : tags[j] = t[i].topic
            THEN [t[i] EXCEPT !.max_solved_rating = r] ELSE t[i]]

update_user_skills_with_rating(table, tags, r) == UpdateSkillsLoop(table, <<>>, tags, r)

\* record_solve on the tables (S, K) at clock t; has_time is the truth value
\* of time_taken.  The result is the pair of tables after the commit.
record_solve(S, K, t, problem_id, verdict, has_time, is_slow) ==
    LET IsProblem(row) == row.problem_id = problem_id
        i == FirstIndex(S, {pos \in 1..Len(S) : IsProblem(S[pos])})
    IN  IF i # 0
        THEN [solved |-> [S EXCEPT ![i] =
                            [problem_id |-> problem_id,
                             solved_at |-> S[i].solved_at,
                             verdict |-> verdict,
                             is_slow_solve |->
                                IF has_time THEN is_slow ELSE S[i].is_slow_solve]],
              skills |-> K]
        ELSE [solved |-> Append(S, [problem_id |-> problem_id,
                                    solved_at |-> t,
                                    verdict |-> verdict,
                                    is_slow_solve |-> is_slow]),
              skills |-> IF verdict = "AC"
                         THEN update_user_skills_with_rating(
                                K, ProblemById(problem_id).tags,
                                ProblemById(problem_id).rating)
                         ELSE K]

(***************************************************************************)
(* sync_user_solved_history                                                *)
(***************************************************************************)
Sub(verdict, cid, idx, t) ==
    [verdict |-> verdict, contestId |-> cid, index |-> idx, creationTimeSeconds |-> t]

\* prob_map[(cid, idx)], None when the key is absent.  contest_ids holds the
\* contest ids of the accepted submissions (0 stands for a missing id).
ProbMapGet(contest_ids, cid, idx) ==
    LET hits == {i \in 1..Len(Catalog) :
                    /\ Catalog[i].contest_id \in contest_ids
                    /\ Catalog[i].contest_id = cid
                    /\ Catalog[i].problem_index = idx}
    IN  IF hits = {} THEN None
        ELSE Catalog[CHOOSE i \in hits : \A j \in hits : j <= i]

\* skills_update[t] = max(skills_update.get(t, 0), rating) for each tag; the
\* dict is a sequence of entries in insertion order.
RECURSIVE SkillsUpdatePut(_, _, _)
SkillsUpdatePut(skills_update, tags, r) ==
    IF tags = <<>> THEN skills_update
    ELSE LET t == Head(tags)
             IsTopic(e) == e.topic = t
             i == FirstIndex(skills_update, {pos \in 1..Len(skills_update) : IsTopic(skills_update[pos])})
             next == IF i # 0
                     THEN [skills_update EXCEPT ![i] =
                             [topic |-> t, max_rating |-> Max(skills_update[i].max_rating, r)]]
                     ELSE Append(skills_update, [topic |-> t, max_rating |-> Max(0, r)])
         IN  SkillsUpdatePut(next, Tail(tags), r)

SyncStep_forgetting_new_solves(acc, sub, contest_ids) ==
    LET prob == ProbMapGet(contest_ids, sub.contestId, sub.index)
        upd == IF prob.tags # <<>>
               THEN SkillsUpdatePut(acc.skills_update, prob.tags, prob.rating)
               ELSE acc.skills_update
    IN  IF prob = None THEN acc
        ELSE IF prob.id \notin acc.existing_solved
        THEN [new_solves |-> Append(acc.new_solves,
                                    [problem_id |-> prob.id,
                                     solved_at |-> sub.creationTimeSeconds,
                                     verdict |-> "AC",
                                     is_slow_solve |-> FALSE]),
              skills_update |-> upd,
              existing_solved |-> acc.existing_solved,
              count |-> acc.count + 1]
        ELSE [acc EXCEPT !.skills_update = upd]

\* One iteration of "for sub in ac_subs".
SyncStep(acc, sub, contest_ids) ==
    LET prob == ProbMapGet(contest_ids, sub.contestId, sub.index)
        upd == IF prob.tags # <<>>
               THEN SkillsUpdatePut(acc.skills_update, prob.tags, prob.rating)
               ELSE acc.skills_update
    IN  IF prob = None THEN acc
        ELSE IF prob.id \notin acc.existing_solved
        THEN [new_solves |-> Append(acc.new_solves,
                                    [problem_id |-> prob.id,
                                     solved_at |-> sub.creationTimeSeconds,
                                     verdict |-> "AC",
                                     is_slow_solve |-> FALSE]),
              skills_update |-> upd,
              existing_solved |-> acc.existing_solved \cup {prob.id},
              count |-> acc.count + 1]
        ELSE [acc EXCEPT !.skills_update = upd]

RECURSIVE SyncLoop(_, _, _)
SyncLoop(acc, ac_subs, contest_ids) ==
    IF ac_subs = <<>> THEN acc
    ELSE SyncLoop(SyncStep(acc, Head(ac_subs), contest_ids), Tail(ac_subs), contest_ids)

\* Step 6 of sync_user_solved_history: the skill rows after the commit.
RECURSIVE SyncSkills(_, _, _)
SyncSkills(table, pending, skills_update) ==
    IF skills_update = <<>> THEN table \o pending
    ELSE LET e == Head(skills_update)
             IsTopic(row) == row.topic = e.topic
             i == FirstIndex(table, {pos \in 1..Len(table) : IsTopic(table[pos])})
         IN  IF i # 0
             THEN SyncSkills(
                    [table EXCEPT ![i] =
                        [topic |-> e.topic,
                         solve_count |-> table[i].solve_count + 0,
                         max_solved_rating |->
                            IF e.max_rating > table[i].max_solved_rating
                            THEN e.max_rating ELSE table[i].max_solved_rating]],
                    pending, Tail(skills_update))
             ELSE SyncSkills(
                    table,
                    Append(pending, [topic |-> e.topic, solve_count |-> 0,
                                     max_solved_rating |-> e.max_rating]),
                    Tail(skills_update))

sync_user_solved_history_recounting(S, K, submissions) ==
    LET IsOK(sub) == sub.verdict = "OK"
        ac_subs == SelectSeq(submissions, IsOK)
        contest_ids == {ac_subs[i].contestId : i \in 1..Len(ac_subs)} \ {0}
        existing_solved == {S[i].problem_id : i \in 1..Len(S)}
        acc == SyncLoop([new_solves |-> <<>>, skills_update |-> <<>>,
                         existing_solved |-> existing_solved, count |-> 0],
                        ac_subs, contest_ids)
        synced == SyncSkills(K, <<>>, acc.skills_update)
    IN  IF ac_subs = <<>>
        THEN [solved |-> S, skills |-> K, count |-> 0]
        ELSE [solved |-> S \o acc.new_solves,
              skills |-> [i \in 1..Len(synced) |->
                            IF \E j \in 1..Len(acc.skills_update) :
                                  acc.skills_update[j].topic = synced[i].topic
                            THEN [synced[i] EXCEPT !.solve_count = @ + 1]
                            ELSE synced[i]],
              count |-> acc.count]

\* The tables after sync_user_solved_history(submissions), and its result.
sync_user_solved_history(S, K, submissions) ==
    LET IsOK(sub) == sub.verdict = "OK"
        ac_subs == SelectSeq(submissions, IsOK)
        contest_ids == {ac_subs[i].contestId : i \in 1..Len(ac_subs)} \ {0}
        existing_solved == {S[i].problem_id : i \in 1..Len(S)}
        acc == SyncLoop([new_solves |-> <<>>, skills_update |-> <<>>,
                         existing_solved |-> existing_solved, count |-> 0],
                        ac_subs, contest_ids)
    IN  IF ac_subs = <<>>
        THEN [solved |-> S, skills |-> K, count |-> 0]
        ELSE [solved |-> S \o acc.new_solves,
              skills |-> SyncSkills(K, <<>>, acc.skills_update),
              count |-> acc.count]

(***************************************************************************)
(* Inputs of the handlers                                                  *)
(***************************************************************************)
Ratings == {0, 1200, 5000}
TopicInputs == {"dp", "Graph"}
RatingOffsets == {-500, 0}
SolveProblemIds == {1, 2}
SkipProblemIds == {2}
Feedbacks == {"too_easy", "too_hard", "none"}

\* What submit_solve can pass to record_solve: is_slow is only ever true for
\* an accepted solve with a time (api_routes.py, submit_solve).
SolveInputs ==
    {[verdict |-> "WA", has_time |-> TRUE, is_slow |-> FALSE],
     [verdict |-> "AC", has_time |-> TRUE, is_slow |-> FALSE],
     [verdict |-> "AC", has_time |-> TRUE, is_slow |-> TRUE]}

\* Submission lists fetched from Codeforces; t is the submission time.
BatchMixed(t) ==
    << Sub("OK", 1, "A", t), Sub("WRONG_ANSWER", 1, "B", t), Sub("OK", 2, "A", t),
       Sub("OK", 1, "A", 0), Sub("OK", 9, "Z", t), Sub("OK", 0, "A", t) >>

BatchContest3(t) ==
    [i \in 1..10 |-> Sub("OK", 3, Catalog[i + 3].problem_index, t)]

BatchRejected == << Sub("WRONG_ANSWER", 1, "B", 0) >>

Batches == {BatchRejected, BatchMixed(now), BatchContest3(now)}

(***************************************************************************)
(* The handlers                                                            *)
(***************************************************************************)
NoRec == [op |-> "none"]
NoRk == [op |-> "none"]
NoSel == [op |-> "none"]
NoAn == [op |-> "none"]

Init ==
    /\ rating \in Ratings
    /\ solved = <<>>
    /\ skipped = <<>>
    /\ skills = <<>>
    /\ now = 0
    /\ calls = 0
    /\ rec = NoRec
    /\ rk = NoRk
    /\ sel = NoSel
    /\ stats = <<>>
    /\ an = NoAn
    /\ cache = <<>> /\ callers = <<>> /\ api = <<>>

\* POST /solve/{problem_id}
submit_solve ==
    /\ rec = NoRec
    /\ now < MaxTime
    /\ calls < MaxCalls
    /\ calls' = calls + 1
    /\ \E problem_id \in SolveProblemIds, in \in SolveInputs :
         LET r == record_solve(solved, skills, now, problem_id,
                               in.verdict, in.has_time, in.is_slow)
         IN  /\ solved' = r.solved
             /\ skills' = r.skills
    /\ now' = now + 1
    /\ rec' = NoRec
    /\ UNCHANGED <<rating, skipped, rk, sel, stats, an>>
    /\ UNCHANGED cache_vars

skip_tables_first_skip_only_saves(S, K, X, t, problem_id, feedback) ==
    LET IsProblem(row) == row.problem_id = problem_id
        i == FirstIndex(X, {pos \in 1..Len(X) : IsProblem(X[pos])})
        r == record_solve(S, K, t, problem_id, "AC", FALSE, FALSE)
    IN  IF i # 0
        THEN [solved |-> r.solved, skills |-> r.skills,
              skipped |-> [X EXCEPT ![i] =
                            [problem_id |-> problem_id,
                             skip_count |-> X[i].skip_count + 1,
                             feedback |-> X[i].feedback,
                             skipped_at |-> t]]]
        ELSE [solved |-> S, skills |-> K,
              skipped |-> Append(X, [problem_id |-> problem_id,
                                     skip_count |-> 1,
                                     feedback |-> feedback,
                                     skipped_at |-> t + SKIP_AHEAD])]

\* The tables after skip_problem(problem_id, feedback) at clock t.
skip_tables(S, K, X, t, problem_id, feedback) ==
    LET IsProblem(row) == row.problem_id = problem_id
        i == FirstIndex(X, {pos \in 1..Len(X) : IsProblem(X[pos])})
        r == record_solve(S, K, t, problem_id, "AC", FALSE, FALSE)
    IN  IF i # 0
        THEN [solved |-> r.solved, skills |-> r.skills,
              skipped |-> [X EXCEPT ![i] =
                            [problem_id |-> problem_id,
                             skip_count |-> X[i].skip_count + 1,
                             feedback |-> X[i].feedback,
                             skipped_at |-> t]]]
        ELSE [solved |-> r.solved, skills |-> r.skills,
              skipped |-> Append(X, [problem_id |-> problem_id,
                                     skip_count |-> 1,
                                     feedback |-> feedback,
                                     skipped_at |-> t + SKIP_AHEAD])]

\* POST /skip/{problem_id}
skip_problem ==
    /\ rec = NoRec
    /\ now < MaxTime
    /\ calls < MaxCalls
    /\ calls' = calls + 1
    /\ \E problem_id \in SkipProblemIds, feedback \in Feedbacks :
         LET r == skip_tables(solved, skills, skipped, now, problem_id, feedback)
         IN  /\ solved' = r.solved
             /\ skills' = r.skills
             /\ skipped' = r.skipped
    /\ now' = now + 1
    /\ rec' = NoRec
    /\ UNCHANGED <<rating, rk, sel, stats, an>>
    /\ UNCHANGED cache_vars

\* The solved-history sync of GET /analysis/weaknesses.
sync_history ==
    /\ rec = NoRec
    /\ now < MaxTime
    /\ calls < MaxCalls
    /\ calls' = calls + 1
    /\ \E submissions \in Batches :
         LET r == sync_user_solved_history(solved, skills, submissions)
         IN  /\ solved' = r.solved
             /\ skills' = r.skills
    /\ now' = now + 1
    /\ rec' = NoRec
    /\ UNCHANGED <<rating, skipped, rk, sel, stats, an>>
    /\ UNCHANGED cache_vars

\* GET /user/{handle}: the rating is refreshed, then the history is synced
\* when Codeforces returned submissions.
get_user ==
    /\ rec = NoRec
    /\ now < MaxTime
    /\ calls < MaxCalls
    /\ calls' = calls + 1
    /\ \E new_rating \in Ratings, submissions \in {<<>>, BatchMixed(now)} :
         LET r == IF submissions # <<>>
                  THEN sync_user_solved_history(solved, skills, submissions)
                  ELSE [solved |-> solved, skills |-> skills, count |-> 0]
         IN  /\ rating' = new_rating
             /\ solved' = r.solved
             /\ skills' = r.skills
    /\ now' = now + 1
    /\ rec' = NoRec
    /\ UNCHANGED <<skipped, rk, sel, stats, an>>
    /\ UNCHANGED cache_vars

\* GET /recommend and GET /extension/recommend
recommend ==
    /\ rec = NoRec
    /\ \E topic \in TopicInputs, rating_offset \in RatingOffsets,
          order \in QueryOrders, last_solve \in LastSolves, last_skip \in LastSkips :
         LET c == ranked_candidates(topic, rating_offset, order, last_solve, last_skip)
         IN  \E ai \in AIOutcomes :
                rec' = recommend_problems(c, topic, rating_offset, order, ai)
    /\ UNCHANGED <<rating, solved, skipped, skills, now, calls, rk, sel, stats, an>>
    /\ UNCHANGED cache_vars

\* The response of recommend has been sent; requests are served one at a time.
respond ==
    /\ rec # NoRec
    /\ rec' = NoRec
    /\ UNCHANGED <<rating, solved, skipped, skills, now, calls, rk, sel, stats, an>>
    /\ UNCHANGED cache_vars

\* Time passes between two requests.
Tick ==
    /\ rec = NoRec
    /\ now < MaxTime
    /\ now' = now + 1
    /\ rec' = NoRec
    /\ UNCHANGED <<rating, solved, skipped, skills, calls, rk, sel, stats, an>>
    /\ UNCHANGED cache_vars

Next ==
    \/ submit_solve
    \/ skip_problem
    \/ sync_history
    \/ get_user
    \/ recommend
    \/ respond
    \/ Tick

Spec == Init /\ [][Next]_vars

(***************************************************************************)
(* rank_problems_by_distance as a function of its arguments: the input     *)
(* list is drawn from the lists of distinct problems of RankPool, ranked,  *)
(* reordered and ranked again.                                             *)
(***************************************************************************)
RankPool == {Catalog[i] : i \in {1, 2, 9, 10, 11}}
RankTargets == {1400, 1250}
RankLimits == 0..(MaxRankLen + 1)

\* The lists without repetition over the set S, of the length n.
ListsOf(S, n) == {l \in [1..n -> S] : \A i, j \in 1..n : i # j => l[i] # l[j]}

RankInit ==
    /\ rating = 0
    /\ solved = <<>>
    /\ skipped = <<>>
    /\ skills = <<>>
    /\ now = 0
    /\ calls = 0
    /\ rec = NoRec
    /\ sel = NoSel
    /\ stats = <<>>
    /\ an = NoAn
    /\ \E n \in 0..MaxRankLen : \E l \in ListsOf(RankPool, n) :
       \E t \in RankTargets, limit \in RankLimits :
         rk = [op |-> "input", problems |-> l, target_rating |-> t, limit |-> limit,
               out |-> <<>>, prev |-> <<>>, again |-> FALSE]
    /\ cache = <<>> /\ callers = <<>> /\ api = <<>>

rank ==
    /\ rk.op = "input"
    /\ rk' = [rk EXCEPT !.op = "ranked",
                        !.prev = rk.out,
                        !.out = rank_problems_by_distance(rk.problems, rk.target_rating,
                                                          rk.limit)]
    /\ UNCHANGED <<rating, solved, skipped, skills, now, calls, rec, sel, stats, an>>
    /\ UNCHANGED cache_vars

\* The same problems come back from the database in another order.
reorder ==
    /\ rk.op = "ranked"
    /\ ~rk.again
    /\ \E l \in ListsOf(Range(rk.problems), Len(rk.problems)) :
         rk' = [rk EXCEPT !.op = "input", !.problems = l, !.again = TRUE]
    /\ UNCHANGED <<rating, solved, skipped, skills, now, calls, rec, sel, stats, an>>
    /\ UNCHANGED cache_vars

RankNext == rank \/ reorder

SpecRank == RankInit /\ [][RankNext]_vars

(***************************************************************************)
(* select_best_problem as a function of its arguments: the ranked          *)
(* candidates are a list of distinct problems of RankPool, and the         *)
(* selector answers in one of the ways of SelectorOutcomes.                *)
(***************************************************************************)
SelectorOutcomes ==
    AIOutcomes \cup {[kind |-> "index", index |-> i] : i \in {0, 3}}

SelectInit ==
    /\ rating = 0
    /\ solved = <<>>
    /\ skipped = <<>>
    /\ skills = <<>>
    /\ now = 0
    /\ calls = 0
    /\ rec = NoRec
    /\ rk = NoRk
    /\ stats = <<>>
    /\ an = NoAn
    /\ \E n \in 0..MaxRankLen : \E l \in ListsOf(RankPool, n) :
       \E ai \in SelectorOutcomes :
         sel = [op |-> "input", candidates |-> l, ai |-> ai, out |-> None]
    /\ cache = <<>> /\ callers = <<>> /\ api = <<>>

select ==
    /\ sel.op = "input"
    /\ sel' = [sel EXCEPT !.op = "selected",
                          !.out = select_best_problem(sel.candidates, sel.ai)]
    /\ UNCHANGED <<rating, solved, skipped, skills, now, calls, rec, rk, stats, an>>
    /\ UNCHANGED cache_vars

SelectNext == select

SpecSelect == SelectInit /\ [][SelectNext]_vars

(***************************************************************************)
(* WEAKNESS ANALYSIS (backend/app/weakness_analysis.py)                    *)
(*                                                                         *)
(* stats is the user_contest_problem_stats table of the user.  A rate the  *)
(* code computes as a float quotient n / d is kept as the pair (n, d): it  *)
(* is compared with a threshold by cross-multiplication and rounded to     *)
(* hundredths, so the thresholds are in hundredths too.  The columns       *)
(* problem_name, time_to_ac, solved_at and first_attempt_at are written    *)
(* and never read by the analysis; they are left out.  problem_id, the     *)
(* string contest id + index, is kept as the index.  A band key            *)
(* "1200-1300" is kept as its lower end 1200.                              *)
(***************************************************************************)
MIN_ATTEMPTS_FOR_WEAK_BAND == 8
WEAK_UNSOLVED_RATE == 60
MIN_ATTEMPTS_FOR_WEAK_TOPIC == 6
WEAK_TOPIC_SOLVED_RATE == 40
RATING_BUCKET_WIDTH == 100
MAX_UPSOLVE_CANDIDATES == 5
UPSOLVE_RATING_BUFFER == 100
CONTEST_DURATION == 7200

\* round(n / d, 2) in hundredths.  The quotients of the model have
\* denominators below 16, where a tie at half a hundredth only happens for
\* an eighth, which a float holds exactly and round() then rounds to even.
Round2(n, d) ==
    LET q == (100 * n) \div d
        r == (100 * n) % d
    IN  IF 2 * r < d THEN q
        ELSE IF 2 * r > d THEN q + 1
        ELSE IF q % 2 = 0 THEN q ELSE q + 1

\* A submission as Codeforces returns it; has_contest is "contestId" in sub,
\* rated is whether the problem carries a rating.
CSub(cid, idx, rated, r, tags, verdict, t, rel) ==
    [has_contest |-> TRUE, contestId |-> cid, index |-> idx, rated |-> rated,
     rating |-> r, tags |-> tags, verdict |-> verdict,
     creationTimeSeconds |-> t, relativeTimeSeconds |-> rel]

\* The keys of problem_submissions in insertion order.
RECURSIVE GroupKeys(_, _)
GroupKeys(submissions, keys) ==
    IF submissions = <<>> THEN keys
    ELSE LET sub == Head(submissions)
             k == <<sub.contestId, sub.index>>
         IN  IF ~sub.has_contest \/ (\E i \in 1..Len(keys) : keys[i] = k)
             THEN GroupKeys(Tail(submissions), keys)
             ELSE GroupKeys(Tail(submissions), Append(keys, k))

SyncStat_late_accept_not_solved(T, submissions, k) ==
    LET OfKey(sub) == sub.has_contest /\ <<sub.contestId, sub.index>> = k
        subs == SelectSeq(submissions, OfKey)
        i == FirstIndex(T, {pos \in 1..Len(T) :
                                T[pos].contest_id = k[1] /\ T[pos].problem_id = k[2]})
        stat == IF i # 0 THEN T[i]
                ELSE [contest_id |-> k[1], problem_id |-> k[2],
                      rated |-> subs[1].rated, problem_rating |-> subs[1].rating,
                      tags |-> subs[1].tags,
                      attempted |-> FALSE, solved |-> FALSE, attempt_count |-> 0,
                      solved_after_contest |-> FALSE]
        oks == {j \in 1..Len(subs) : subs[j].verdict = "OK"}
        ok == CHOOSE j \in oks : \A l \in oks : j <= l
        in_contest == subs[ok].relativeTimeSeconds # 0
                        /\ subs[ok].relativeTimeSeconds < CONTEST_DURATION
        updated == [stat EXCEPT
                      !.attempted = TRUE,
                      !.attempt_count = Len(subs),
                      !.solved = IF oks # {} /\ in_contest THEN TRUE ELSE @,
                      !.solved_after_contest =
                          IF oks # {} /\ ~in_contest THEN TRUE ELSE @]
    IN  IF i # 0 THEN [T EXCEPT ![i] = updated] ELSE Append(T, updated)

SyncStat_solved_from_batch(T, submissions, k) ==
    LET OfKey(sub) == sub.has_contest /\ <<sub.contestId, sub.index>> = k
        subs == SelectSeq(submissions, OfKey)
        i == FirstIndex(T, {pos \in 1..Len(T) :
                                T[pos].contest_id = k[1] /\ T[pos].problem_id = k[2]})
        stat == IF i # 0 THEN T[i]
                ELSE [contest_id |-> k[1], problem_id |-> k[2],
                      rated |-> subs[1].rated, problem_rating |-> subs[1].rating,
                      tags |-> subs[1].tags,
                      attempted |-> FALSE, solved |-> FALSE, attempt_count |-> 0,
                      solved_after_contest |-> FALSE]
        oks == {j \in 1..Len(subs) : subs[j].verdict = "OK"}
        updated == [stat EXCEPT
                      !.attempted = TRUE,
                      !.attempt_count = Len(subs),
                      !.solved = oks # {}]
    IN  IF i # 0 THEN [T EXCEPT ![i] = updated] ELSE Append(T, updated)

\* One iteration of "for (contest_id, problem_id), subs in ...": the table
\* with the stat of the key created or updated.  Keys are distinct, so the
\* lookup of one iteration never concerns a row added by an earlier one.
SyncStat(T, submissions, k) ==
    LET OfKey(sub) == sub.has_contest /\ <<sub.contestId, sub.index>> = k
        subs == SelectSeq(submissions, OfKey)
        i == FirstIndex(T, {pos \in 1..Len(T) :
                                T[pos].contest_id = k[1] /\ T[pos].problem_id = k[2]})
        stat == IF i # 0 THEN T[i]
                ELSE [contest_id |-> k[1], problem_id |-> k[2],
                      rated |-> subs[1].rated, problem_rating |-> subs[1].rating,
                      tags |-> subs[1].tags,
                      attempted |-> FALSE, solved |-> FALSE, attempt_count |-> 0,
                      solved_after_contest |-> FALSE]
        oks == {j \in 1..Len(subs) : subs[j].verdict = "OK"}
        ok == CHOOSE j \in oks : \A l \in oks : j <= l
        in_contest == subs[ok].relativeTimeSeconds # 0
                        /\ subs[ok].relativeTimeSeconds < CONTEST_DURATION
        updated == [stat EXCEPT
                      !.attempted = TRUE,
                      !.attempt_count = Len(subs),
                      !.solved = IF oks # {} THEN TRUE ELSE @,
                      !.solved_after_contest =
                          IF oks # {} /\ ~in_contest THEN TRUE ELSE @]
    IN  IF i # 0 THEN [T EXCEPT ![i] = updated] ELSE Append(T, updated)

RECURSIVE SyncStats(_, _, _)
SyncStats(T, submissions, keys) ==
    IF keys = <<>> THEN T
    ELSE SyncStats(SyncStat(T, submissions, Head(keys)), submissions, Tail(keys))

\* The table after sync_contest_stats(submissions).
sync_contest_stats_table(T, submissions) ==
    SyncStats(T, submissions, GroupKeys(submissions, <<>>))

\* The rows of a query without ORDER BY, in one of the orders the database
\* may return them.
StatsIn(T, order) == IF order = "asc" THEN T ELSE Reverse(T)

Bucket(r) == (r \div RATING_BUCKET_WIDTH) * RATING_BUCKET_WIDTH

\* The keys of a defaultdict in insertion order, when the items are looked
\* up one after the other.
RECURSIVE InsertionOrder(_, _)
InsertionOrder(items, keys) ==
    IF items = <<>> THEN keys
    ELSE IF \E i \in 1..Len(keys) : keys[i] = Head(items)
    THEN InsertionOrder(Tail(items), keys)
    ELSE InsertionOrder(Tail(items), Append(keys, Head(items)))

\* The dict buckets of detect_weak_rating_bands after its first loop: the
\* bands in insertion order, each with the number of stats that added to
\* its counters.
rating_buckets(T, order) ==
    LET Rated(row) == row.rated /\ row.attempted
        rows == SelectSeq(StatsIn(T, order), Rated)
        bucket == [i \in 1..Len(rows) |-> Bucket(rows[i].problem_rating)]
        bands == InsertionOrder(bucket, <<>>)
        Of(band) == {i \in 1..Len(rows) : bucket[i] = band}
    IN  [k \in 1..Len(bands) |->
            [band |-> bands[k],
             attempted |-> Cardinality(Of(bands[k])),
             solved |-> Cardinality({i \in Of(bands[k]) : rows[i].solved}),
             unsolved |-> Cardinality({i \in Of(bands[k]) : ~rows[i].solved})]]

weak_band_strict(counts) ==
    /\ counts.attempted >= MIN_ATTEMPTS_FOR_WEAK_BAND
    /\ 100 * counts.unsolved > WEAK_UNSOLVED_RATE * counts.attempted

\* The test of "Find weak bands".
weak_band(counts) ==
    /\ counts.attempted >= MIN_ATTEMPTS_FOR_WEAK_BAND
    /\ 100 * counts.unsolved >= WEAK_UNSOLVED_RATE * counts.attempted

detect_weak_rating_bands(T, order) ==
    LET buckets == rating_buckets(T, order)
        weak == SelectSeq(buckets, weak_band)
        weak_bands == [i \in 1..Len(weak) |->
                        [band |-> weak[i].band,
                         attempted |-> weak[i].attempted,
                         solved |-> weak[i].solved,
                         unsolved |-> weak[i].unsolved,
                         unsolved_rate |-> Round2(weak[i].unsolved, weak[i].attempted)]]
        key == [b \in Range(weak_bands) |-> <<0 - b.unsolved_rate, 0>>]
    IN  Sorted(weak_bands, key)

\* The (tag, stat.solved) pairs in the order the two nested loops of
\* detect_weak_topics visit them; tag is stripped and lower-cased, and an
\* empty tag is passed over.
RECURSIVE TagOccurrences(_)
TagOccurrences(rows) ==
    IF rows = <<>> THEN <<>>
    ELSE LET stat == Head(rows)
             NotEmpty(o) == o.tag # ""
         IN  SelectSeq([j \in 1..Len(stat.tags) |->
                            [tag |-> Lower(stat.tags[j]), solved |-> stat.solved]],
                       NotEmpty)
                \o TagOccurrences(Tail(rows))

topic_counts_attempted_as_failed(T, order) ==
    LET Attempted(row) == row.attempted
        occ == TagOccurrences(SelectSeq(StatsIn(T, order), Attempted))
        tags == InsertionOrder([i \in 1..Len(occ) |-> occ[i].tag], <<>>)
        Of(tag) == {i \in 1..Len(occ) : occ[i].tag = tag}
    IN  [k \in 1..Len(tags) |->
            [topic |-> tags[k],
             attempted |-> Cardinality({i \in Of(tags[k]) : ~occ[i].solved}),
             solved |-> Cardinality({i \in Of(tags[k]) : occ[i].solved}),
             failed |-> Cardinality({i \in Of(tags[k]) : ~occ[i].solved})]]

\* The dict topics of detect_weak_topics after its first loop: the tags in
\* insertion order, each with the number of occurrences that added to its
\* counters.
topic_counts(T, order) ==
    LET Attempted(row) == row.attempted
        occ == TagOccurrences(SelectSeq(StatsIn(T, order), Attempted))
        tags == InsertionOrder([i \in 1..Len(occ) |-> occ[i].tag], <<>>)
        Of(tag) == {i \in 1..Len(occ) : occ[i].tag = tag}
    IN  [k \in 1..Len(tags) |->
            [topic |-> tags[k],
             attempted |-> Cardinality(Of(tags[k])),
             solved |-> Cardinality({i \in Of(tags[k]) : occ[i].solved}),
             failed |-> Cardinality({i \in Of(tags[k]) : ~occ[i].solved})]]

weak_topic_or_equal(counts) ==
    /\ counts.attempted >= MIN_ATTEMPTS_FOR_WEAK_TOPIC
    /\ 100 * counts.solved <= WEAK_TOPIC_SOLVED_RATE * counts.attempted

\* The test of "Find weak topics".
weak_topic(counts) ==
    /\ counts.attempted >= MIN_ATTEMPTS_FOR_WEAK_TOPIC
    /\ 100 * counts.solved < WEAK_TOPIC_SOLVED_RATE * counts.attempted

detect_weak_topics(T, order) ==
    LET topics == topic_counts(T, order)
        weak == SelectSeq(topics, weak_topic)
        weak_topics == [i \in 1..Len(weak) |->
                         [topic |-> weak[i].topic,
                          attempted |-> weak[i].attempted,
                          solved |-> weak[i].solved,
                          failed |-> weak[i].failed,
                          solved_rate |-> Round2(weak[i].solved, weak[i].attempted)]]
        key == [t \in Range(weak_topics) |-> <<t.solved_rate, 0>>]
    IN  Sorted(weak_topics, key)

upsolve_score_per_tag(stat, user_rating, weak_band_set, weak_topic_set) ==
    3 * Cardinality({Lower(stat.tags[i]) : i \in 1..Len(stat.tags)} \cap weak_topic_set)
      + (IF stat.problem_rating # 0 /\ Bucket(stat.problem_rating) \in weak_band_set
         THEN 2 ELSE 0)
      + (IF ~stat.solved_after_contest THEN 1 ELSE 0)
      - (IF stat.problem_rating > user_rating THEN 1 ELSE 0)

\* The score of one candidate (the body of "for stat in candidates").
upsolve_score(stat, user_rating, weak_band_set, weak_topic_set) ==
    (IF stat.tags # <<>>
        /\ {Lower(stat.tags[i]) : i \in 1..Len(stat.tags)} \cap weak_topic_set # {}
     THEN 3 ELSE 0)
      + (IF stat.problem_rating # 0 /\ Bucket(stat.problem_rating) \in weak_band_set
         THEN 2 ELSE 0)
      + (IF ~stat.solved_after_contest THEN 1 ELSE 0)
      - (IF stat.problem_rating > user_rating THEN 1 ELSE 0)

upsolve_sorted_by_rating_only(scored_candidates) ==
    Sorted(scored_candidates,
           [c \in Range(scored_candidates) |-> <<c.rating, 0>>])

\* scored_candidates.sort(key=lambda x: (-x["score"], x["rating"]))
upsolve_sorted(scored_candidates) ==
    Sorted(scored_candidates,
           [c \in Range(scored_candidates) |-> <<0 - c.score, c.rating>>])

\* The candidate dicts without db_id, name, url and reasons, which are
\* derived from the stat and do not enter the ranking.
get_upsolve_candidates(T, order, user_rating, weak_bands, weak_topics) ==
    LET Unsolved(row) == row.attempted /\ ~row.solved /\ row.rated
        unsolved == SelectSeq(StatsIn(T, order), Unsolved)
        max_rating == user_rating + UPSOLVE_RATING_BUFFER
        Capped(row) == row.problem_rating <= max_rating
        candidates == SelectSeq(unsolved, Capped)
        weak_band_set == {weak_bands[i].band : i \in 1..Len(weak_bands)}
        weak_topic_set == {weak_topics[i].topic : i \in 1..Len(weak_topics)}
        scored_candidates ==
            [i \in 1..Len(candidates) |->
                [problem_id |-> candidates[i].problem_id,
                 contest_id |-> candidates[i].contest_id,
                 rating |-> candidates[i].problem_rating,
                 tags |-> candidates[i].tags,
                 score |-> upsolve_score(candidates[i], user_rating,
                                         weak_band_set, weak_topic_set),
                 attempt_count |-> candidates[i].attempt_count]]
    IN  Slice(upsolve_sorted(scored_candidates), MAX_UPSOLVE_CANDIDATES)

(***************************************************************************)
(* Tag normalisation (app/config.py) and topic aggregation (app/scoring.py)*)
(***************************************************************************)
TAG_NORMALIZATION_MAP ==
    ("dp" :> "dp") @@
    ("dynamic programming" :> "dp") @@
    ("greedy" :> "greedy") @@
    ("implementation" :> "implementation") @@
    ("math" :> "math") @@
    ("number theory" :> "number theory") @@
    ("graphs" :> "graphs") @@
    ("graph" :> "graphs") @@
    ("trees" :> "trees") @@
    ("tree" :> "trees") @@
    ("binary search" :> "binary search") @@
    ("binarysearch" :> "binary search") @@
    ("data structures" :> "data structures") @@
    ("ds" :> "data structures") @@
    ("strings" :> "strings") @@
    ("string" :> "strings") @@
    ("geometry" :> "geometry") @@
    ("sorting" :> "sortings") @@
    ("sortings" :> "sortings") @@
    ("brute force" :> "brute force") @@
    ("bruteforce" :> "brute force") @@
    ("constructive algorithms" :> "constructive algorithms") @@
    ("constructive" :> "constructive algorithms") @@
    ("two pointers" :> "two pointers") @@
    ("twopointers" :> "two pointers") @@
    ("dfs and similar" :> "dfs and similar") @@
    ("dfs" :> "dfs and similar") @@
    ("bfs" :> "dfs and similar") @@
    ("bitmasks" :> "bitmasks") @@
    ("bitmask" :> "bitmasks") @@
    ("combinatorics" :> "combinatorics") @@
    ("divide and conquer" :> "divide and conquer") @@
    ("games" :> "games") @@
    ("game theory" :> "games") @@
    ("interactive" :> "interactive") @@
    ("probabilities" :> "probabilities") @@
    ("probability" :> "probabilities") @@
    ("shortest paths" :> "shortest paths") @@
    ("flows" :> "flows") @@
    ("dsu" :> "dsu") @@
    ("disjoint set union" :> "dsu") @@
    ("union find" :> "dsu") @@
    ("hashing" :> "hashing") @@
    ("fft" :> "fft") @@
    ("matrices" :> "matrices") @@
    ("matrix" :> "matrices") @@
    ("ternary search" :> "ternary search") @@
    ("meet-in-the-middle" :> "meet-in-the-middle") @@
    ("expression parsing" :> "expression parsing") @@
    ("2-sat" :> "2-sat") @@
    ("chinese remainder theorem" :> "chinese remainder theorem") @@
    ("schedules" :> "schedules")

\* tag.lower().strip(), then the alias table, else the lower-cased tag.  The
\* strings of the model carry no outer blanks.
normalize_tag(tag) ==
    LET tag_lower == Lower(tag)
    IN  IF tag_lower \in DOMAIN TAG_NORMALIZATION_MAP
        THEN TAG_NORMALIZATION_MAP[tag_lower] ELSE tag_lower

\* A string given by its characters, for the functions that take strings
\* apart: a text is a sequence whose elements are "," or " " or a word, a word
\* standing for its letters.  str.lower, str.strip, str.split(",") and
\* ",".join on texts.
LowerText(t) == [i \in 1..Len(t) |-> Lower(t[i])]
RECURSIVE StripLeft(_)
StripLeft(t) == IF t # <<>> /\ Head(t) = " " THEN StripLeft(Tail(t)) ELSE t
Strip(t) == Reverse(StripLeft(Reverse(StripLeft(t))))
RECURSIVE Split(_)
Split(t) ==
    LET commas == {i \in 1..Len(t) : t[i] = ","}
    IN  IF commas = {} THEN <<t>>
        ELSE LET i == CHOOSE i \in commas : \A j \in commas : i <= j
             IN  <<SubSeq(t, 1, i - 1)>> \o Split(SubSeq(t, i + 1, Len(t)))
RECURSIVE Join(_)
Join(pieces) ==
    IF pieces = <<>> THEN <<>>
    ELSE IF Len(pieces) = 1 THEN pieces[1]
    ELSE pieces[1] \o <<",">> \o Join(Tail(pieces))

\* normalize_tag on a text: a text of one word is looked up in the alias
\* table, any other text is an unknown tag.
normalize_tag_text(tag) ==
    LET tag_lower == Strip(LowerText(tag))
    IN  IF Len(tag_lower) = 1 /\ tag_lower[1] \in DOMAIN TAG_NORMALIZATION_MAP
        THEN <<TAG_NORMALIZATION_MAP[tag_lower[1]]>> ELSE tag_lower

normalize_tags_trailing_comma(tags_str) ==
    IF tags_str = <<>> THEN <<>>
    ELSE LET pieces == Split(tags_str)
             tags == [i \in 1..Len(pieces) |-> normalize_tag_text(Strip(pieces[i]))]
         IN  Join(InsertionOrder(tags, <<>>)) \o <<",">>

\* normalize_tags: "" for an empty string, else the normalised pieces without
\* duplicates, in order, joined by commas.
normalize_tags(tags_str) ==
    IF tags_str = <<>> THEN <<>>
    ELSE LET pieces == Split(tags_str)
             tags == [i \in 1..Len(pieces) |-> normalize_tag_text(Strip(pieces[i]))]
             unique_tags == InsertionOrder(tags, <<>>)
         IN  Join(unique_tags)

\* Scoring constants of app/config.py, as fractions <<numerator, denominator>>.
WRONG_SUBMISSION_BASE_WEIGHT == <<1, 2>>
DIFFICULTY_MULTIPLIER == <<6, 5>>
REPEATED_ATTEMPT_PENALTY == <<1, 5>>
TIME_DECAY_FACTOR == <<19, 20>>
TIME_DECAY_MAX_DAYS == 30

\* Python floats are modelled by fractions in lowest terms.
RECURSIVE Gcd(_, _)
Gcd(a, b) == IF b = 0 THEN a ELSE Gcd(b, a % b)
Frac(n, d) == LET g == Gcd(n, d) IN IF n = 0 THEN <<0, 1>> ELSE <<n \div g, d \div g>>
FracMul(x, y) ==
    LET a == Frac(x[1], y[2])
        b == Frac(y[1], x[2])
    IN  <<a[1] * b[1], a[2] * b[2]>>
FracAdd(x, y) == Frac(x[1] * y[2] + y[1] * x[2], x[2] * y[2])
FracMin(x, y) == IF x[1] * y[2] <= y[1] * x[2] THEN x ELSE y

\* round(x, digits) in units of 10^-digits, ties to even, by long division.
RECURSIVE RoundDigits(_, _, _, _)
RoundDigits(q, r, d, digits) ==
    IF digits = 0
    THEN IF 2 * r < d THEN q
         ELSE IF 2 * r > d THEN q + 1
         ELSE IF q % 2 = 0 THEN q ELSE q + 1
    ELSE RoundDigits(10 * q + (10 * r) \div d, (10 * r) % d, d, digits - 1)
Round(x, digits) == RoundDigits(x[1] \div x[2], x[1] % x[2], x[2], digits)

\* TIME_DECAY_FACTOR ** capped_days for whole days, kept to six decimals at
\* each multiplication and given to four decimals.
RECURSIVE PowMillionths(_, _)
PowMillionths(base, k) ==
    IF k = 0 THEN 1000000 ELSE (PowMillionths(base, k - 1) * base[1]) \div base[2]
time_weight(days_ago) ==
    LET capped_days == Min(days_ago, TIME_DECAY_MAX_DAYS)
    IN  Frac((PowMillionths(TIME_DECAY_FACTOR, capped_days) + 50) \div 100, 10000)

calculate_weakness_score_by_attempts(attempts, successes, problem_rating, user_rating, days_ago) ==
    IF attempts = 0 THEN 0
    ELSE LET failures == attempts
             base_score == FracMul(Frac(failures, attempts), WRONG_SUBMISSION_BASE_WEIGHT)
             attempt_penalty == FracAdd(<<1, 1>>, FracMul(<<failures, 1>>, REPEATED_ATTEMPT_PENALTY))
         IN  Round(FracMul(base_score, attempt_penalty), 4)

calculate_weakness_score_by_success_rate(attempts, successes, problem_rating, user_rating, days_ago) ==
    IF attempts = 0 THEN 0
    ELSE LET failures == attempts - successes
         IN  IF failures <= 0 THEN 0
             ELSE Round(FracMul(Frac(successes, attempts), WRONG_SUBMISSION_BASE_WEIGHT), 4)

\* calculate_weakness_score, in ten-thousandths (the result is rounded to
\* four decimals); days_ago in whole days.
calculate_weakness_score(attempts, successes, problem_rating, user_rating, days_ago) ==
    IF attempts = 0 THEN 0
    ELSE LET failures == attempts - successes
         IN  IF failures <= 0 THEN 0
             ELSE LET failure_rate == Frac(failures, attempts)
                      base_score == FracMul(failure_rate, WRONG_SUBMISSION_BASE_WEIGHT)
                      rating_ratio == Frac(problem_rating, Max(user_rating, 800))
                      difficulty_weight ==
                          FracMin(FracMul(rating_ratio, DIFFICULTY_MULTIPLIER), <<2, 1>>)
                      attempt_penalty ==
                          FracAdd(<<1, 1>>, FracMul(<<failures, 1>>, REPEATED_ATTEMPT_PENALTY))
                      final_score ==
                          FracMul(FracMul(FracMul(base_score, difficulty_weight),
                                          attempt_penalty),
                                  time_weight(days_ago))
                  IN  Round(final_score, 4)

RECURSIVE SumSeq(_)
SumSeq(s) == IF s = <<>> THEN 0 ELSE Head(s) + SumSeq(Tail(s))

\* The (tag, rating, verdict) triples in the order the loops of
\* aggregate_topic_weakness visit them: a submission without tags or without
\* a rating is passed over, the tags (a list, as Codeforces sends them) are
\* normalised.
RECURSIVE SubmissionTags(_)
SubmissionTags(submissions) ==
    IF submissions = <<>> THEN <<>>
    ELSE LET sub == Head(submissions)
             r == IF sub.rated THEN sub.rating ELSE 0
         IN  (IF sub.tags = <<>> \/ r = 0 THEN <<>>
              ELSE [j \in 1..Len(sub.tags) |->
                      [tag |-> normalize_tag(sub.tags[j]), rating |-> r,
                       ok |-> sub.verdict = "OK"]])
                \o SubmissionTags(Tail(submissions))

\* The result dict of aggregate_topic_weakness, in insertion order.  Every
\* submission of a batch carries the same creationTimeSeconds, so that
\* last_attempt_time is that time for every topic; days_ago is the number of
\* whole days from it to utcnow().  score is in ten-thousandths and
\* days_since_last in tenths.
aggregate_topic_weakness(submissions, user_rating, days_ago) ==
    LET occ == SubmissionTags(submissions)
        tags == InsertionOrder([i \in 1..Len(occ) |-> occ[i].tag], <<>>)
        Of(tag) == {i \in 1..Len(occ) : occ[i].tag = tag}
        rating_sum(tag) ==
            SumSeq([i \in 1..Len(occ) |-> IF occ[i].tag = tag THEN occ[i].rating ELSE 0])
    IN  [k \in 1..Len(tags) |->
            LET attempts == Cardinality(Of(tags[k]))
                successes == Cardinality({i \in Of(tags[k]) : occ[i].ok})
                avg_rating == rating_sum(tags[k]) \div attempts
            IN  [topic |-> tags[k],
                 score |-> calculate_weakness_score(attempts, successes, avg_rating,
                                                    user_rating, days_ago),
                 attempts |-> attempts,
                 successes |-> successes,
                 failure_rate |-> Round2(attempts - successes, attempts),
                 avg_rating |-> avg_rating,
                 days_since_last |-> 10 * days_ago]]

(***************************************************************************)
(* GET /analysis/weaknesses: the contest statistics are synced from a      *)
(* batch of submissions, then the analysis runs on the table.  The         *)
(* submissions are attempts at the thirteen problems of one contest.       *)
(***************************************************************************)
ContestProblems ==
    << [index |-> "A", rated |-> TRUE, rating |-> 1200, tags |-> <<"math", "dp">>],
       [index |-> "B", rated |-> TRUE, rating |-> 1200, tags |-> <<"math", "dp">>],
       [index |-> "C", rated |-> TRUE, rating |-> 1250, tags |-> <<"math", "dp">>],
       [index |-> "D", rated |-> TRUE, rating |-> 1250, tags |-> <<"math", "dp">>],
       [index |-> "E", rated |-> TRUE, rating |-> 1290, tags |-> <<"math", "dp">>],
       [index |-> "F", rated |-> TRUE, rating |-> 1200, tags |-> <<"math", "dp">>],
       [index |-> "G", rated |-> TRUE, rating |-> 1299, tags |-> <<"dp">>],
       [index |-> "H", rated |-> TRUE, rating |-> 1210, tags |-> <<"dp">>],
       [index |-> "I", rated |-> TRUE, rating |-> 1220, tags |-> <<"dp">>],
       [index |-> "J", rated |-> TRUE, rating |-> 1230, tags |-> <<"dp">>],
       [index |-> "K", rated |-> TRUE, rating |-> 1100, tags |-> <<"graphs">>],
       [index |-> "L", rated |-> FALSE, rating |-> 0, tags |-> <<"math">>],
       [index |-> "M", rated |-> TRUE, rating |-> 1900, tags |-> <<"greedy">>] >>

\* One submission with the verdict for each of the problems from..to, at
\* relativeTimeSeconds rel.
Attempts(from, to, verdict, rel) ==
    [i \in 1..(to - from + 1) |->
        LET p == ContestProblems[from + i - 1]
        IN  CSub(7, p.index, p.rated, p.rating, p.tags, verdict, 1, rel)]

\* A submission outside any contest: it has no contestId.
NoContestSub ==
    [CSub(0, "A", TRUE, 1200, <<"dp">>, "WRONG_ANSWER", 1, 0) EXCEPT !.has_contest = FALSE]

StatBatches ==
    { Attempts(1, 13, "WRONG_ANSWER", 600)
        \o <<NoContestSub>> \o Attempts(1, 1, "WRONG_ANSWER", 900),
      Attempts(1, 4, "OK", 3600),
      Attempts(1, 3, "OK", 3600),
      Attempts(3, 10, "WRONG_ANSWER", 600),
      Attempts(4, 10, "WRONG_ANSWER", 600),
      Attempts(7, 13, "WRONG_ANSWER", 600),
      Attempts(1, 5, "OK", 9000) }

AnalysisRatings == {1100, 1250, 2000}
AggregateDays == {0, 1}

AnalysisInit ==
    /\ rating \in AnalysisRatings
    /\ solved = <<>>
    /\ skipped = <<>>
    /\ skills = <<>>
    /\ now = 0
    /\ calls = 0
    /\ rec = NoRec
    /\ rk = NoRk
    /\ sel = NoSel
    /\ stats = <<>>
    /\ an = NoAn
    /\ cache = <<>> /\ callers = <<>> /\ api = <<>>

\* sync_contest_stats(db, db_user, submissions)
sync_contest_stats ==
    /\ calls < MaxCalls
    /\ calls' = calls + 1
    /\ \E submissions \in StatBatches :
         stats' = sync_contest_stats_table(stats, submissions)
    /\ an' = NoAn
    /\ UNCHANGED <<rating, solved, skipped, skills, now, rec, rk, sel>>
    /\ UNCHANGED cache_vars

\* "Run deterministic analysis": the three functions, each on the rows its
\* query returns.
analyse ==
    /\ \E o1 \in QueryOrders, o2 \in QueryOrders, o3 \in QueryOrders :
         LET weak_bands == detect_weak_rating_bands(stats, o1)
             weak_topics == detect_weak_topics(stats, o2)
         IN  an' = [op |-> "analysis",
                    buckets |-> rating_buckets(stats, o1),
                    topics |-> topic_counts(stats, o2),
                    weak_bands |-> weak_bands,
                    weak_topics |-> weak_topics,
                    upsolve_candidates |->
                        get_upsolve_candidates(stats, o3, rating, weak_bands, weak_topics)]
    /\ UNCHANGED <<rating, solved, skipped, skills, now, calls, rec, rk, sel, stats>>
    /\ UNCHANGED cache_vars

\* aggregate_topic_weakness on a batch of submissions.
aggregate ==
    /\ \E submissions \in StatBatches : \E days_ago \in AggregateDays :
         an' = [op |-> "aggregate", submissions |-> submissions,
                topic_weakness |-> aggregate_topic_weakness(submissions, rating, days_ago)]
    /\ UNCHANGED <<rating, solved, skipped, skills, now, calls, rec, rk, sel, stats>>
    /\ UNCHANGED cache_vars

AnalysisNext == sync_contest_stats \/ analyse \/ aggregate

SpecAnalysis == AnalysisInit /\ [][AnalysisNext]_vars

(***************************************************************************)
(* calculate_weakness_score as a function of its arguments.                *)
(***************************************************************************)
ScoreAttempts == 0..4
ScoreRatings == {0, 800, 1200, 1290, 2400}
ScoreUserRatings == {0, 1000, 1100, 1200}
ScoreDays == {0, 1, 30, 45}

ScoreInit ==
    /\ rating \in ScoreUserRatings
    /\ solved = <<>>
    /\ skipped = <<>>
    /\ skills = <<>>
    /\ now = 0
    /\ calls = 0
    /\ rec = NoRec
    /\ rk = NoRk
    /\ sel = NoSel
    /\ stats = <<>>
    /\ \E attempts \in ScoreAttempts : \E successes \in 0..attempts :
       \E problem_rating \in ScoreRatings : \E days_ago \in ScoreDays :
         an = [op |-> "score_input", attempts |-> attempts, successes |-> successes,
               problem_rating |-> problem_rating, days_ago |-> days_ago, score |-> 0]
    /\ cache = <<>> /\ callers = <<>> /\ api = <<>>

score ==
    /\ an.op = "score_input"
    /\ an' = [an EXCEPT !.op = "score",
                        !.score = calculate_weakness_score(
                                     an.attempts, an.successes, an.problem_rating,
                                     rating, an.days_ago)]
    /\ UNCHANGED <<rating, solved, skipped, skills, now, calls, rec, rk, sel, stats>>
    /\ UNCHANGED cache_vars

ScoreNext == score

SpecScore == ScoreInit /\ [][ScoreNext]_vars

(***************************************************************************)
(* normalize_tag and normalize_tags as functions of their argument, each   *)
(* applied again to its own result.                                        *)
(***************************************************************************)
MaxTextLen == 4
TextChars == {",", " ", "dp", "DP", "dynamic programming", "Graph", "custom"}
Texts == UNION {[1..n -> TextChars] : n \in 0..MaxTextLen}

TagsInit ==
    /\ rating = 0
    /\ solved = <<>>
    /\ skipped = <<>>
    /\ skills = <<>>
    /\ now = 0
    /\ calls = 0
    /\ rec = NoRec
    /\ rk = NoRk
    /\ sel = NoSel
    /\ stats = <<>>
    /\ \E f \in {"normalize_tag", "normalize_tags"} : \E text \in Texts :
         an = [op |-> f, passes |-> 0, input |-> text, text |-> text]
    /\ cache = <<>> /\ callers = <<>> /\ api = <<>>

\* normalize_tag(text), and again on the result.
normalize_tag_call ==
    /\ an.op = "normalize_tag"
    /\ an.passes < 2
    /\ an' = [an EXCEPT !.passes = @ + 1, !.input = an.text,
                        !.text = normalize_tag_text(an.text)]
    /\ UNCHANGED <<rating, solved, skipped, skills, now, calls, rec, rk, sel, stats>>
    /\ UNCHANGED cache_vars

\* normalize_tags(text), and again on the result.
normalize_tags_call ==
    /\ an.op = "normalize_tags"
    /\ an.passes < 2
    /\ an' = [an EXCEPT !.passes = @ + 1, !.input = an.text,
                        !.text = normalize_tags(an.text)]
    /\ UNCHANGED <<rating, solved, skipped, skills, now, calls, rec, rk, sel, stats>>
    /\ UNCHANGED cache_vars

TagsNext == normalize_tag_call \/ normalize_tags_call

SpecTags == TagsInit /\ [][TagsNext]_vars

(***************************************************************************)
(* The handle cache (app/cache.py) and fetch_cf_user_info                  *)
(* (app/cf_client.py).  fetch_cf_user_info is a blocking function: calls   *)
(* on different threads interleave between the locked cache operations.    *)
(* `cache` is user_data_cache, `callers` the threads inside                *)
(* fetch_cf_user_info, `api` the requests sent to Codeforces.              *)
(***************************************************************************)
CACHE_TTL_SECONDS == 6 * 60 * 60
CACHE_MAX_ENTRIES == 1000
CF_API_MAX_RETRIES == 3

\* time.time(): the clock counts ticks of three hours.
SecondsPerTick == 3 * 60 * 60
time_time == now * SecondsPerTick

Callers == {1, 2}
Handles == {"tourist", "Tourist"}
\* What user.info may answer for the handle: the rating changes over time.
ServerInfos == {[handle |-> "tourist", rating |-> 3000],
                [handle |-> "tourist", rating |-> 3100]}
NoInfo == [handle |-> "", rating |-> 0]

Without(dict, key) == [k \in DOMAIN dict \ {key} |-> dict[k]]

\* HandleCache.get under the lock: the cache after it, and (data, cache_hit).
HandleCache_get(c, handle, t) ==
    LET key == Lower(handle)
    IN  IF key \notin DOMAIN c.entries
        THEN [cache |-> c, data |-> NoInfo, hit |-> FALSE, expires_at |-> 0]
        ELSE IF t > c.entries[key].expires_at
        THEN [cache |-> [entries |-> Without(c.entries, key),
                         access_order |-> Without(c.access_order, key)],
              data |-> NoInfo, hit |-> FALSE, expires_at |-> 0]
        ELSE [cache |-> [c EXCEPT !.access_order = (key :> t) @@ c.access_order],
              data |-> c.entries[key].data, hit |-> TRUE,
              expires_at |-> c.entries[key].expires_at]

\* HandleCache._evict_oldest
evict_oldest(c) ==
    IF DOMAIN c.access_order = {} THEN c
    ELSE LET oldest_key == CHOOSE k \in DOMAIN c.access_order :
                               \A o \in DOMAIN c.access_order :
                                   c.access_order[k] <= c.access_order[o]
         IN  [entries |-> Without(c.entries, oldest_key),
              access_order |-> Without(c.access_order, oldest_key)]

\* HandleCache.set under the lock, with the default TTL.
HandleCache_set(c, handle, data, t) ==
    LET key == Lower(handle)
        kept == IF Cardinality(DOMAIN c.entries) >= CACHE_MAX_ENTRIES
                    /\ key \notin DOMAIN c.entries
                THEN evict_oldest(c) ELSE c
    IN  [entries |-> (key :> [data |-> data,
                              expires_at |-> t + CACHE_TTL_SECONDS,
                              created_at |-> t]) @@ kept.entries,
         access_order |-> (key :> t) @@ kept.access_order]

Idle == [pc |-> "idle", handle |-> "", user_info |-> NoInfo, result |-> NoInfo,
         got_at |-> 0, hit |-> FALSE, expires_at |-> 0]

CacheInit ==
    /\ rating = 0
    /\ solved = <<>>
    /\ skipped = <<>>
    /\ skills = <<>>
    /\ now = 0
    /\ calls = 0
    /\ rec = NoRec
    /\ rk = NoRk
    /\ sel = NoSel
    /\ stats = <<>>
    /\ an = NoAn
    /\ cache = [entries |-> <<>>, access_order |-> <<>>]
    /\ callers = [c \in Callers |-> Idle]
    /\ api = <<>>

\* fetch_cf_user_info(handle, use_cache=True) up to the end of
\* user_data_cache.get: a hit returns the cached data.  The key of the
\* entry is the lower-cased handle (the prefix "user_info:" is the same for
\* all).
fetch_get ==
    /\ calls < MaxCalls
    /\ calls' = calls + 1
    /\ \E c \in Callers, handle \in Handles :
         /\ callers[c].pc \in {"idle", "done", "failed"}
         /\ LET cache_key == Lower(handle)
                r == HandleCache_get(cache, cache_key, time_time)
            IN  /\ cache' = r.cache
                /\ callers' = [callers EXCEPT ![c] =
                      [pc |-> IF r.hit THEN "done" ELSE "request",
                       handle |-> handle, user_info |-> NoInfo,
                       result |-> r.data, got_at |-> time_time,
                       hit |-> r.hit, expires_at |-> r.expires_at]]
    /\ UNCHANGED <<rating, solved, skipped, skills, now, rec, rk, sel, stats, an, api>>

\* _make_cf_request: up to CF_API_MAX_RETRIES requests are sent; the last
\* one is answered with the user's info, or all of them fail and CFAPIError
\* is raised.
fetch_request ==
    /\ \E c \in Callers, attempts \in 1..CF_API_MAX_RETRIES, ok \in BOOLEAN,
          info \in ServerInfos :
         /\ callers[c].pc = "request"
         /\ ~ok => attempts = CF_API_MAX_RETRIES
         /\ api' = api \o [i \in 1..attempts |->
                              [t |-> time_time, caller |-> c,
                               ok |-> ok /\ i = attempts,
                               info |-> IF ok /\ i = attempts THEN info ELSE NoInfo]]
         /\ callers' = [callers EXCEPT ![c] =
               IF ok THEN [@ EXCEPT !.pc = "set", !.user_info = info]
               ELSE [@ EXCEPT !.pc = "failed"]]
    /\ UNCHANGED <<rating, solved, skipped, skills, now, calls, rec, rk, sel, stats, an,
                   cache>>

\* user_data_cache.set(cache_key, user_info); return user_info
fetch_set ==
    /\ \E c \in Callers :
         /\ callers[c].pc = "set"
         /\ cache' = HandleCache_set(cache, Lower(callers[c].handle),
                                     callers[c].user_info, time_time)
         /\ callers' = [callers EXCEPT ![c] =
               [@ EXCEPT !.pc = "done", !.result = callers[c].user_info]]
    /\ UNCHANGED <<rating, solved, skipped, skills, now, calls, rec, rk, sel, stats, an,
                   api>>

CacheNext == fetch_get \/ fetch_request \/ fetch_set \/ Tick

SpecCache == CacheInit /\ [][CacheNext]_vars

(***************************************************************************)
(* Properties                                                              *)
(***************************************************************************)
IsRec == rec.op = "recommend"

\* A value brought into the closed range 800..2400.
InRange(x) == IF x < 800 THEN 800 ELSE IF x > 2400 THEN 2400 ELSE x

SolvedTimes == {solved[i].solved_at : i \in 1..Len(solved)}
SkippedTimes == {skipped[i].skipped_at : i \in 1..Len(skipped)}
LatestSolveTime == CHOOSE t \in SolvedTimes : \A u \in SolvedTimes : u <= t
LatestSkipTime == CHOOSE t \in SkippedTimes : \A u \in SkippedTimes : u <= t
LatestSolveRows == {r \in Range(solved) : r.solved_at = LatestSolveTime}
LatestSkipRows == {r \in Range(skipped) : r.skipped_at = LatestSkipTime}

\* The most recent interaction is a solve.
SolveIsLast ==
    /\ solved # <<>>
    /\ (skipped # <<>> => LatestSolveTime > LatestSkipTime)

\* The most recent interaction is a skip.
SkipIsLast ==
    /\ skipped # <<>>
    /\ (solved # <<>> => LatestSkipTime > LatestSolveTime)

RatingOf(problem_id) == Catalog[problem_id].rating

\* C1: the target rating of calculate_target_rating and the target_rating of
\* recommend_problems lie in 800..2400, whatever the rating, the history, the
\* skill records and the offset.
C1_TargetWithinBounds ==
    IsRec => /\ rec.base_target \in 800..2400
             /\ rec.target_rating \in 800..2400

C1_Witness ==
    /\ IsRec
    /\ rating = 5000
    /\ solved # <<>>
    /\ skipped # <<>>
    /\ rec.base_target = 2400
    /\ rec.target_rating = 2400

SolveDelta(row) ==
    IF row.verdict = "AC" THEN (IF row.is_slow_solve THEN 0 ELSE 100) ELSE 0 - 50

\* C2: when the most recent interaction is a solve, the target is
\* max(current rating, rating of the solved problem) + d brought into
\* 800..2400, with d = 100 (accepted, not slow), 0 (accepted, slow), -50
\* (rejected); an accepted, not slow solve of a 1400 problem by a 1200 user
\* gives 1500.
C2_TargetAfterSolve ==
    (IsRec /\ SolveIsLast) =>
        /\ \E row \in LatestSolveRows :
              rec.base_target =
                InRange(Max(rating, RatingOf(row.problem_id)) + SolveDelta(row))
        /\ ( /\ rating = 1200
              /\ \A row \in LatestSolveRows :
                    /\ RatingOf(row.problem_id) = 1400
                    /\ row.verdict = "AC"
                    /\ ~row.is_slow_solve )
            => rec.base_target = 1500

C2_Witness ==
    /\ IsRec
    /\ SolveIsLast
    /\ skipped # <<>>
    /\ rating = 1200
    /\ \A row \in LatestSolveRows :
          /\ RatingOf(row.problem_id) = 1400
          /\ row.verdict = "AC"
          /\ ~row.is_slow_solve
    /\ rec.base_target = 1500

\* C3: when the most recent interaction is a skip, the target is
\* max(current rating, rating of the skipped problem) + 100 for too_easy and
\* the rating of the skipped problem - 100 for too_hard, brought into
\* 800..2400; for too_hard it does not depend on the user's rating, and a
\* too_hard skip of a 1300 problem gives 1200.
C3_TargetAfterSkip ==
    (IsRec /\ SkipIsLast) =>
        \E row \in LatestSkipRows :
            /\ row.feedback = "too_easy" =>
                  rec.base_target = InRange(Max(rating, RatingOf(row.problem_id)) + 100)
            /\ row.feedback = "too_hard" =>
                  /\ rec.base_target = InRange(RatingOf(row.problem_id) - 100)
                  /\ RatingOf(row.problem_id) = 1300 => rec.base_target = 1200

C3_Witness ==
    /\ IsRec
    /\ SkipIsLast
    /\ rating = 5000
    /\ \A row \in LatestSkipRows :
          row.feedback = "too_hard" /\ RatingOf(row.problem_id) = 1300
    /\ rec.base_target = 1200

\* C4: the target is the user's current rating brought into 800..2400 when
\* there is no solve and no skip, when the latest solve and the latest skip
\* have equal timestamps, and when the most recent interaction is a skip
\* without feedback.
C4_TargetDefaultsToRating ==
    ( /\ IsRec
      /\ \/ solved = <<>> /\ skipped = <<>>
         \/ solved # <<>> /\ skipped # <<>> /\ LatestSolveTime = LatestSkipTime
         \/ SkipIsLast /\ \A row \in LatestSkipRows : row.feedback = "none" )
    => rec.base_target = InRange(rating)

C4_Witness ==
    /\ IsRec
    /\ solved # <<>>
    /\ skipped # <<>>
    /\ LatestSolveTime = LatestSkipTime
    /\ \E row \in LatestSkipRows : row.feedback = "too_hard"
    /\ \E row \in LatestSolveRows : row.verdict = "AC" /\ RatingOf(row.problem_id) = 1400
    /\ rating = 1200
    /\ rec.base_target = 1200

\* The max_solved_rating of the skill record of the topic, 0 without record.
TopicMaxOf(topic) ==
    LET rows == {r \in Range(skills) : r.topic = topic}
    IN  IF rows = {} THEN 0 ELSE (CHOOSE r \in rows : TRUE).max_solved_rating

\* The requested topic in lower case, as the skill records spell it.
RequestedTopic == IF rec.topic = "Graph" THEN "graph" ELSE rec.topic

\* C5: target_rating = max(base, topic_max) + rating_offset brought into
\* 800..2400: the topic floor comes before the offset and the clamp is last,
\* so with offset 0 the target is at least min(topic_max, 2400).
C5_FloorThenOffsetThenClamp ==
    IsRec =>
        /\ rec.target_rating =
              InRange(Max(rec.base_target, TopicMaxOf(RequestedTopic)) + rec.rating_offset)
        /\ rec.rating_offset = 0 =>
              rec.target_rating >= Min(TopicMaxOf(RequestedTopic), 2400)

C5_Witness ==
    /\ IsRec
    /\ rec.rating_offset = 0 - 500
    /\ TopicMaxOf(RequestedTopic) = 2500
    /\ rec.base_target < 2000
    /\ rec.target_rating = 2000

\* C6: with rating_offset 0, every problem returned for a topic with a skill
\* record has a rating of at least that record's max_solved_rating.
C6_NeverBelowTopicMax ==
    (IsRec /\ rec.rating_offset = 0) =>
        \A i \in 1..Len(rec.problems) :
            RatingOf(rec.problems[i]) >= TopicMaxOf(RequestedTopic)

\* C7: no problem with a SolvedProblem record is returned, be it from the
\* ranked candidates or from the fallback.
C7_SolvedNeverReturned ==
    IsRec => \A i \in 1..Len(rec.problems) :
                \A j \in 1..Len(solved) : solved[j].problem_id # rec.problems[i]

C7_Witness ==
    /\ IsRec
    /\ rec.message # None
    /\ rec.problems # <<>>
    /\ \E j \in 1..Len(solved) : TagsLike(Catalog[solved[j].problem_id], rec.topic)

SolvesAfter(t) == {j \in 1..Len(solved) : solved[j].solved_at > t}

\* C8: a skipped problem is not returned unless at least 10 solve records
\* are later than its skip timestamp; with fewer than 10 solve records no
\* skipped problem is returned.
C8_SkippedStaysExcluded ==
    IsRec =>
        \A i \in 1..Len(rec.problems) : \A k \in 1..Len(skipped) :
            skipped[k].problem_id = rec.problems[i] =>
                /\ Cardinality(SolvesAfter(skipped[k].skipped_at)) >= 10
                /\ Len(solved) >= 10

C8_Witness ==
    /\ IsRec
    /\ skipped # <<>>
    /\ Len(solved) >= 10
    /\ get_recently_skipped_ids = {}
    /\ \E k \in 1..Len(skipped) : TagsLike(Catalog[skipped[k].problem_id], rec.topic)
    /\ rec.problems # <<>>

\* The rank of a problem among the problems ps: how many of them come
\* before it by (distance to the target, id).
RankOf(p, ps, t) ==
    Cardinality({q \in ps :
        \/ Abs(q.rating - t) < Abs(p.rating - t)
        \/ Abs(q.rating - t) = Abs(p.rating - t) /\ q.id < p.id})

\* C9: the result is the first `limit` problems by distance to the target
\* ascending, ties by id ascending; it depends on the set of problems and the
\* target only, so ranking the same problems in another order gives the same
\* list.
C9_RankingDeterministic ==
    rk.op = "ranked" =>
        LET ps == Range(rk.problems)
        IN  /\ Len(rk.out) = Min(rk.limit, Cardinality(ps))
            /\ \A i \in 1..Len(rk.out) :
                  rk.out[i] \in ps /\ RankOf(rk.out[i], ps, rk.target_rating) = i - 1
            /\ rk.again => rk.out = rk.prev

C9_Witness ==
    /\ rk.op = "ranked"
    /\ rk.again
    /\ Len(rk.problems) = 4
    /\ rk.limit = 3
    /\ rk.problems[1].id > rk.problems[2].id
    /\ \E i, j \in 1..4 :
          /\ i # j
          /\ Abs(rk.problems[i].rating - rk.target_rating)
               = Abs(rk.problems[j].rating - rk.target_rating)
    /\ Len(rk.out) = 3

\* The problems recommend_problems may rank: matching the topic, within 150
\* of the target, not solved, not in skip cooldown.
Eligible ==
    {p \in Range(Catalog) :
        /\ TagsLike(p, rec.topic)
        /\ Abs(p.rating - rec.target_rating) <= 150
        /\ \A j \in 1..Len(solved) : solved[j].problem_id # p.id
        /\ p.id \notin get_recently_skipped_ids}

UnsolvedOnTopic ==
    {p \in Range(Catalog) :
        /\ TagsLike(p, rec.topic)
        /\ \A j \in 1..Len(solved) : solved[j].problem_id # p.id}

\* C10: the fallback is taken exactly when no problem is eligible; it returns
\* the easiest unsolved problems of the topic by rating ascending, whatever
\* their rating, with a message naming the intended range; otherwise there is
\* no message and every returned problem matches the topic within 150 of the
\* target.
C10_FallbackExactlyWhenEmpty ==
    IsRec =>
        /\ rec.message # None <=> Eligible = {}
        /\ rec.message # None =>
              /\ rec.message.min_range = Max(800, rec.target_rating - 150)
              /\ rec.message.max_range = Min(2400, rec.target_rating + 150)
              /\ Len(rec.problems) = Min(5, Cardinality(UnsolvedOnTopic))
              /\ \A i \in 1..Len(rec.problems) :
                    /\ Catalog[rec.problems[i]] \in UnsolvedOnTopic
                    /\ \A j \in 1..Len(rec.problems) :
                          i < j => /\ RatingOf(rec.problems[i]) <= RatingOf(rec.problems[j])
                                   /\ rec.problems[i] # rec.problems[j]
                    /\ \A p \in UnsolvedOnTopic :
                          p.rating < RatingOf(rec.problems[i]) =>
                            \E j \in 1..Len(rec.problems) : rec.problems[j] = p.id
        /\ rec.message = None =>
              /\ rec.problems # <<>>
              /\ \A i \in 1..Len(rec.problems) :
                    /\ TagsLike(Catalog[rec.problems[i]], rec.topic)
                    /\ Abs(RatingOf(rec.problems[i]) - rec.target_rating) <= 150

C10_Witness ==
    /\ IsRec
    /\ rec.message # None
    /\ Len(rec.problems) = 5
    /\ Cardinality(UnsolvedOnTopic) > 5
    /\ solved # <<>>
    /\ \E p \in UnsolvedOnTopic : p.rating > rec.target_rating + 150
    /\ RatingOf(rec.problems[1]) < rec.target_rating - 150

\* C11: select_best_problem returns an element of a non-empty candidate list,
\* the first one when the selector has no API key, raises, gives no index or
\* gives an index outside the list; for the empty list it returns no problem.
C11_SelectorFallsBackToFirst ==
    sel.op = "selected" =>
        LET n == Len(sel.candidates)
            unusable == \/ sel.ai.kind \in {"nokey", "error", "noindex"}
                        \/ sel.ai.index < 0
                        \/ sel.ai.index >= n
        IN  /\ n = 0 => sel.out = None
            /\ n > 0 => \E i \in 1..n : sel.out = sel.candidates[i]
            /\ n > 0 /\ unusable => sel.out = sel.candidates[1]

C11_Witness ==
    /\ sel.op = "selected"
    /\ Len(sel.candidates) = 3
    /\ sel.ai.kind = "error"
    /\ sel.out = sel.candidates[1]
    /\ sel.out # sel.candidates[3]

IsAnalysis == an.op = "analysis"

\* The lower ends of the 100-wide rating bands, and the topic names.
Bands == {100 * k : k \in 0..30}
Topics == {"dp", "graphs", "greedy", "math"}

\* The attempted rated problems of a band, and the unsolved ones among them.
BandAttempted(band) ==
    {i \in 1..Len(stats) :
        /\ stats[i].attempted /\ stats[i].rated
        /\ band <= stats[i].problem_rating
        /\ stats[i].problem_rating < band + 100}
BandUnsolved(band) == {i \in BandAttempted(band) : ~stats[i].solved}
ReportedBands == {an.weak_bands[i].band : i \in 1..Len(an.weak_bands)}

\* C12: a band is reported exactly when at least 8 rated problems of it were
\* attempted and at least 60% of them are unsolved; no band with fewer than 8
\* attempted problems is reported.
C12_WeakBandIffThreshold ==
    IsAnalysis =>
        /\ \A band \in Bands :
              band \in ReportedBands <=>
                  /\ Cardinality(BandAttempted(band)) >= 8
                  /\ 5 * Cardinality(BandUnsolved(band)) >= 3 * Cardinality(BandAttempted(band))
        /\ ReportedBands \subseteq Bands
        /\ \A i \in 1..Len(an.weak_bands) :
              /\ an.weak_bands[i].attempted = Cardinality(BandAttempted(an.weak_bands[i].band))
              /\ an.weak_bands[i].attempted >= 8

\* A band at exactly 60% unsolved is reported, while another state has a band
\* with 7 attempts, all unsolved, that is not.
C12_Witness ==
    /\ IsAnalysis
    /\ 1200 \in ReportedBands
    /\ Cardinality(BandAttempted(1200)) = 10
    /\ Cardinality(BandUnsolved(1200)) = 6

C12_WitnessSeven ==
    /\ IsAnalysis
    /\ Cardinality(BandAttempted(1200)) = 7
    /\ Cardinality(BandUnsolved(1200)) = 7
    /\ 1200 \notin ReportedBands

\* The attempted problems carrying a tag, and the solved ones among them.
TopicAttempted(topic) ==
    {i \in 1..Len(stats) :
        stats[i].attempted /\ \E j \in 1..Len(stats[i].tags) : stats[i].tags[j] = topic}
TopicSolved(topic) == {i \in TopicAttempted(topic) : stats[i].solved}
ReportedTopics == {an.weak_topics[i].topic : i \in 1..Len(an.weak_topics)}

AlphaRank(topic) ==
    CASE topic = "dp" -> 1
      [] topic = "graphs" -> 2
      [] topic = "greedy" -> 3
      [] topic = "math" -> 4

\* C14: the weak topics are listed by solved/attempted ascending, and topics
\* with an equal rate are in alphabetical order of their names.
C14_WeakTopicsTiesByName ==
    IsAnalysis =>
        \A i \in 1..(Len(an.weak_topics) - 1) :
            LET a == an.weak_topics[i]
                b == an.weak_topics[i + 1]
            IN  \/ a.solved * b.attempted < b.solved * a.attempted
                \/ /\ a.solved * b.attempted = b.solved * a.attempted
                   /\ AlphaRank(a.topic) < AlphaRank(b.topic)

\* The stat of a returned candidate, and the score the scoring rule gives a
\* stat: 3 for a tag among the weak topics, 2 for a rating in a weak band, 1
\* when not solved after the contest, minus 1 for a rating above the user's.
StatOf(c) ==
    CHOOSE row \in Range(stats) :
        row.contest_id = c.contest_id /\ row.problem_id = c.problem_id
RuleScore(row) ==
    (IF \E j \in 1..Len(row.tags) : row.tags[j] \in ReportedTopics THEN 3 ELSE 0)
      + (IF \E band \in ReportedBands :
               band <= row.problem_rating /\ row.problem_rating < band + 100
         THEN 2 ELSE 0)
      + (IF row.solved_after_contest THEN 0 ELSE 1)
      - (IF row.problem_rating > rating THEN 1 ELSE 0)

\* C15: the score of every returned candidate is the one of the scoring rule;
\* the 3 points are given once however many of its tags are weak topics.
C15_UpsolveScoreRule ==
    IsAnalysis =>
        \A i \in 1..Len(an.upsolve_candidates) :
            an.upsolve_candidates[i].score = RuleScore(StatOf(an.upsolve_candidates[i]))

\* A candidate with two weak tags in a weak band, not above the user's
\* rating, scores 6.
C15_Witness ==
    /\ IsAnalysis
    /\ \E i \in 1..Len(an.upsolve_candidates) :
         LET c == an.upsolve_candidates[i]
         IN  /\ c.score = 6
             /\ Len(c.tags) = 2
             /\ \A j \in 1..2 : c.tags[j] \in ReportedTopics
             /\ c.rating <= rating
             /\ ~StatOf(c).solved_after_contest

\* The stats that qualify as upsolve candidates.
Upsolvable ==
    {row \in Range(stats) :
        /\ row.attempted /\ row.rated /\ ~row.solved
        /\ row.problem_rating <= rating + 100}

\* The key (score, rating) of one is strictly better than the other's.
BetterKey(s1, r1, s2, r2) == s1 > s2 \/ (s1 = s2 /\ r1 < r2)

\* C16: at most 5 candidates are returned, each an attempted, unsolved, rated
\* problem with rating <= user rating + 100; they are in the order of score
\* descending, then rating ascending, and none left out has a strictly better
\* (score, rating) than one returned.
C16_UpsolveTopFive ==
    IsAnalysis =>
        LET out == an.upsolve_candidates
        IN  /\ Len(out) <= 5
            /\ \A i \in 1..Len(out) :
                  /\ StatOf(out[i]) \in Upsolvable
                  /\ out[i].rating = StatOf(out[i]).problem_rating
            /\ \A i, j \in 1..Len(out) :
                  i # j => <<out[i].contest_id, out[i].problem_id>>
                              # <<out[j].contest_id, out[j].problem_id>>
            /\ \A i \in 1..(Len(out) - 1) :
                  ~BetterKey(out[i + 1].score, out[i + 1].rating,
                             out[i].score, out[i].rating)
            /\ \A row \in Upsolvable :
                  (\A i \in 1..Len(out) : StatOf(out[i]) # row) =>
                      \A i \in 1..Len(out) :
                          ~BetterKey(RuleScore(row), row.problem_rating,
                                     out[i].score, out[i].rating)

\* Five are returned out of more, with two scores and two ratings among them.
C16_Witness ==
    /\ IsAnalysis
    /\ Len(an.upsolve_candidates) = 5
    /\ Cardinality(Upsolvable) > 5
    /\ \E i \in 1..4 : an.upsolve_candidates[i].score > an.upsolve_candidates[i + 1].score
    /\ \E i \in 1..4 :
         /\ an.upsolve_candidates[i].score = an.upsolve_candidates[i + 1].score
         /\ an.upsolve_candidates[i].rating < an.upsolve_candidates[i + 1].rating

\* The counters of a topic in a skills table; 0 when it has no record.
SolveCount(K, topic) ==
    IF SkillRecord(K, topic) = None THEN 0 ELSE SkillRecord(K, topic).solve_count
MaxSolved(K, topic) ==
    IF SkillRecord(K, topic) = None THEN 0 ELSE SkillRecord(K, topic).max_solved_rating

\* The step is a record_solve(problem_id, "AC") made by submit_solve.
IsAcceptedSolve(problem_id, in) ==
    LET r == record_solve(solved, skills, now, problem_id, "AC", in.has_time, in.is_slow)
    IN  /\ in.verdict = "AC"
        /\ rec = NoRec
        /\ calls' = calls + 1
        /\ now' = now + 1
        /\ solved' = r.solved
        /\ skills' = r.skills
        /\ UNCHANGED <<rating, skipped>>

\* C17: every record_solve with verdict AC adds 1 to the solve_count of each
\* tag of the problem and raises its max_solved_rating to at least the
\* problem's rating, also when an attempt at the problem was recorded before.
C17_EveryAcceptedSolveCounts ==
    [][\A problem_id \in SolveProblemIds, in \in SolveInputs :
          IsAcceptedSolve(problem_id, in) =>
              LET problem == ProblemById(problem_id)
              IN  \A j \in 1..Len(problem.tags) :
                    /\ SolveCount(skills', problem.tags[j])
                          = SolveCount(skills, problem.tags[j]) + 1
                    /\ MaxSolved(skills', problem.tags[j])
                          = Max(MaxSolved(skills, problem.tags[j]), problem.rating)]_vars

\* C18: in every step a skill record that exists stays, for the same topic,
\* and neither its solve_count nor its max_solved_rating decreases.
C18_SkillsNeverDecrease ==
    [][/\ Len(skills') >= Len(skills)
       /\ \A i \in 1..Len(skills) :
            /\ skills'[i].topic = skills[i].topic
            /\ skills'[i].solve_count >= skills[i].solve_count
            /\ skills'[i].max_solved_rating >= skills[i].max_solved_rating]_vars

\* Problem 1 (1400) was solved before problem 2 (1300): the dp record was
\* updated by a solve of a lower rating and kept its maximum.
C18_Witness ==
    /\ Len(solved) = 2
    /\ solved[1].problem_id = 1 /\ solved[1].verdict = "AC"
    /\ solved[2].problem_id = 2 /\ solved[2].verdict = "AC"
    /\ solved[1].solved_at < solved[2].solved_at
    /\ SolveCount(skills, "dp") = 2
    /\ MaxSolved(skills, "dp") = 1400

\* The step is a sync_user_solved_history(submissions).
IsSync(submissions) ==
    LET r == sync_user_solved_history(solved, skills, submissions)
    IN  /\ rec = NoRec
        /\ calls' = calls + 1
        /\ now' = now + 1
        /\ solved' = r.solved
        /\ skills' = r.skills
        /\ UNCHANGED <<rating, skipped>>

\* The ratings of the locally known problems with the tag that the batch
\* holds an accepted submission of.
BatchRatings(submissions, topic) ==
    {Catalog[p].rating : p \in
        {p \in 1..Len(Catalog) :
            /\ \E j \in 1..Len(Catalog[p].tags) : Catalog[p].tags[j] = topic
            /\ \E i \in 1..Len(submissions) :
                  /\ submissions[i].verdict = "OK"
                  /\ submissions[i].contestId = Catalog[p].contest_id
                  /\ submissions[i].index = Catalog[p].problem_index}}

SetMax(S) == CHOOSE x \in S : \A y \in S : y <= x

\* C19: a sync leaves the solve_count of every existing skill record as it
\* was and raises its max_solved_rating to the highest rating of the accepted,
\* locally known problems of the batch with the topic, when that is higher; a
\* record it creates has solve_count 0; it creates and changes nothing else.
C19_SyncKeepsSolveCount ==
    [][\A submissions \in Batches :
          IsSync(submissions) =>
              /\ \A i \in 1..Len(skills) :
                    LET rs == BatchRatings(submissions, skills[i].topic)
                    IN  /\ skills'[i].topic = skills[i].topic
                        /\ skills'[i].solve_count = skills[i].solve_count
                        /\ skills'[i].max_solved_rating =
                              IF rs = {} THEN skills[i].max_solved_rating
                              ELSE Max(skills[i].max_solved_rating, SetMax(rs))
              /\ \A i \in (Len(skills) + 1)..Len(skills') :
                    /\ skills'[i].solve_count = 0
                    /\ BatchRatings(submissions, skills'[i].topic) # {}
                    /\ skills'[i].max_solved_rating
                          = SetMax(BatchRatings(submissions, skills'[i].topic))
              /\ \A topic \in {"dp", "graphs"} :
                    BatchRatings(submissions, topic) # {}
                        => SkillRecord(skills', topic) # None]_vars

\* A sync of ten accepted problems has raised the maximum of the dp record
\* that one solve had created.
C19_Witness ==
    /\ SolveCount(skills, "dp") = 1
    /\ MaxSolved(skills, "dp") = 2500
    /\ Len(solved) > 10

\* C20: in every statistic of the aggregators solved is at most attempted: for
\* each topic of detect_weak_topics and of aggregate_topic_weakness, and for
\* each band of detect_weak_rating_bands, where solved + unsolved = attempted.
C20_SolvedAtMostAttempted ==
    /\ IsAnalysis =>
          /\ \A i \in 1..Len(an.topics) : an.topics[i].solved <= an.topics[i].attempted
          /\ \A i \in 1..Len(an.weak_topics) :
                an.weak_topics[i].solved <= an.weak_topics[i].attempted
          /\ \A i \in 1..Len(an.buckets) :
                /\ an.buckets[i].solved <= an.buckets[i].attempted
                /\ an.buckets[i].solved + an.buckets[i].unsolved = an.buckets[i].attempted
          /\ \A i \in 1..Len(an.weak_bands) :
                /\ an.weak_bands[i].solved <= an.weak_bands[i].attempted
                /\ an.weak_bands[i].solved + an.weak_bands[i].unsolved
                      = an.weak_bands[i].attempted
    /\ an.op = "aggregate" =>
          \A i \in 1..Len(an.topic_weakness) :
              an.topic_weakness[i].successes <= an.topic_weakness[i].attempts

\* A topic and a band with solved and unsolved problems, in a reported band.
C20_Witness ==
    /\ IsAnalysis
    /\ \E i \in 1..Len(an.topics) :
         0 < an.topics[i].solved /\ an.topics[i].solved < an.topics[i].attempted
    /\ \E i \in 1..Len(an.weak_bands) :
         0 < an.weak_bands[i].solved /\ 0 < an.weak_bands[i].unsolved

\* aggregate_topic_weakness has counted accepted submissions of a topic.
C20_WitnessAggregate ==
    /\ an.op = "aggregate"
    /\ \E i \in 1..Len(an.topic_weakness) :
         an.topic_weakness[i].successes = an.topic_weakness[i].attempts
            /\ an.topic_weakness[i].attempts > 3

\* The counters of a band and of a topic as detect_weak_rating_bands and
\* detect_weak_topics aggregate them from a table; 0 for a key without entry.
BandCounts(T, band) ==
    LET buckets == rating_buckets(T, "asc")
        hit == {i \in 1..Len(buckets) : buckets[i].band = band}
    IN  IF hit = {} THEN [attempted |-> 0, solved |-> 0]
        ELSE LET i == CHOOSE i \in hit : TRUE
             IN  [attempted |-> buckets[i].attempted, solved |-> buckets[i].solved]
TopicCounts(T, topic) ==
    LET topics == topic_counts(T, "asc")
        hit == {i \in 1..Len(topics) : topics[i].topic = topic}
    IN  IF hit = {} THEN [attempted |-> 0, solved |-> 0]
        ELSE LET i == CHOOSE i \in hit : TRUE
             IN  [attempted |-> topics[i].attempted, solved |-> topics[i].solved]

\* Every entry of the aggregate before has an entry of the same key after,
\* with counters at least as high.
BandsGrow(before, after) ==
    \A i \in 1..Len(before) : \E j \in 1..Len(after) :
        /\ after[j].band = before[i].band
        /\ after[j].attempted >= before[i].attempted
        /\ after[j].solved >= before[i].solved
TopicsGrow(before, after) ==
    \A i \in 1..Len(before) : \E j \in 1..Len(after) :
        /\ after[j].topic = before[i].topic
        /\ after[j].attempted >= before[i].attempted
        /\ after[j].solved >= before[i].solved

\* C21: no sync_contest_stats call lowers the attempted or the solved count of
\* a band or of a topic, and a stat that is solved stays solved.
C21_StatsNeverDecrease ==
    [][ \/ stats' = stats
        \/ /\ BandsGrow(rating_buckets(stats, "asc"), rating_buckets(stats', "asc"))
           /\ TopicsGrow(topic_counts(stats, "asc"), topic_counts(stats', "asc"))
           /\ Len(stats') >= Len(stats)
           /\ \A i \in 1..Len(stats) :
                /\ stats'[i].contest_id = stats[i].contest_id
                /\ stats'[i].problem_id = stats[i].problem_id
                /\ stats[i].solved => stats'[i].solved
                /\ stats[i].attempted => stats'[i].attempted ]_vars

\* A solved problem has been synced again with two rejected submissions only,
\* and is still solved.
C21_Witness ==
    /\ \E i \in 1..Len(stats) : stats[i].solved /\ stats[i].attempt_count = 2
    /\ TopicCounts(stats, "math").solved >= 3
    /\ BandCounts(stats, 1200).attempted > BandCounts(stats, 1200).solved

IsScore == an.op = "score"

\* C22: calculate_weakness_score returns exactly 0 when attempts = 0 or
\* successes = attempts, whatever the ratings and days_ago.
C22_ZeroWithoutFailures ==
    IsScore /\ (an.attempts = 0 \/ an.successes = an.attempts) => an.score = 0

\* A call with four attempts, all of them successes, on a hard problem.
C22_Witness ==
    /\ IsScore
    /\ an.attempts = 4 /\ an.successes = 4
    /\ an.problem_rating = 2400 /\ rating = 1000 /\ an.days_ago = 0

\* C23: the score is non-negative, and with attempts, ratings and days_ago
\* fixed a call with more failures never scores lower.
C23_ScoreMonotoneInFailures ==
    IsScore =>
        /\ an.score >= 0
        /\ \A successes \in 0..an.successes :
              calculate_weakness_score(an.attempts, successes, an.problem_rating,
                                       rating, an.days_ago) >= an.score

\* A call with one failure out of four that scores above 0, so that calls with
\* two, three and four failures are compared with it.
C23_Witness ==
    /\ IsScore
    /\ an.attempts = 4 /\ an.successes = 3
    /\ an.score > 0
    /\ an.days_ago = 30

\* C24: normalize_tag and normalize_tags are idempotent: applied to its own
\* result each returns it unchanged, and every value of the alias table is
\* mapped to itself.
C24_NormalizationIdempotent ==
    /\ an.op \in {"normalize_tag", "normalize_tags"} /\ an.passes = 2
          => an.text = an.input
    /\ \A k \in DOMAIN TAG_NORMALIZATION_MAP :
          normalize_tag(TAG_NORMALIZATION_MAP[k]) = TAG_NORMALIZATION_MAP[k]

\* A text such as "DP,Graph" has become "dp,graphs", and normalize_tags has
\* been applied to that result.
C24_Witness ==
    /\ an.op = "normalize_tags" /\ an.passes = 2
    /\ an.input = <<"dp", ",", "graphs">>
    /\ an.text = <<"dp", ",", "graphs">>

\* The attempted problems with a rating that carry a tag, and the rated
\* submissions of an aggregated batch that carry it.
RatedTopicAttempted(topic) == {i \in TopicAttempted(topic) : stats[i].rated}
RatedSubmissions(topic) ==
    {i \in 1..Len(an.submissions) :
        /\ an.submissions[i].rated
        /\ \E j \in 1..Len(an.submissions[i].tags) : an.submissions[i].tags[j] = topic}

\* C25: a problem without a rating is counted in no band of
\* detect_weak_rating_bands, in no topic of detect_weak_topics and of
\* aggregate_topic_weakness, and is no upsolve candidate.
C25_UnratedCountedNowhere ==
    /\ IsAnalysis =>
          /\ \A i \in 1..Len(an.buckets) :
                an.buckets[i].attempted = Cardinality(BandAttempted(an.buckets[i].band))
          /\ \A i \in 1..Len(an.upsolve_candidates) :
                StatOf(an.upsolve_candidates[i]).rated
          /\ \A i \in 1..Len(an.topics) :
                /\ an.topics[i].attempted
                      = Cardinality(RatedTopicAttempted(an.topics[i].topic))
                /\ an.topics[i].solved
                      = Cardinality({j \in RatedTopicAttempted(an.topics[i].topic) :
                                        stats[j].solved})
    /\ an.op = "aggregate" =>
          \A i \in 1..Len(an.topic_weakness) :
              an.topic_weakness[i].attempts
                  = Cardinality(RatedSubmissions(an.topic_weakness[i].topic))

\* C26: a first skip of a problem only adds its row to the skipped problems
\* and leaves the solved problems as they are; a repeated skip marks the
\* problem solved.
C26_FirstSkipOnlySaves ==
    [][ \A p \in SkipProblemIds :
          LET before == {k \in 1..Len(skipped) : skipped[k].problem_id = p}
              after == {k \in 1..Len(skipped') : skipped'[k].problem_id = p}
          IN  /\ before = {} /\ after # {} => solved' = solved
              /\ (\E k \in before : skipped'[k].skip_count = skipped[k].skip_count + 1)
                    => \E j \in 1..Len(solved') : solved'[j].problem_id = p ]_vars

\* The step is skip_problem(problem_id, feedback), or is
\* record_solve(problem_id, ...) with the inputs in.
IsSkip(problem_id, feedback) ==
    LET r == skip_tables(solved, skills, skipped, now, problem_id, feedback)
    IN  /\ rec = NoRec
        /\ calls' = calls + 1
        /\ now' = now + 1
        /\ solved' = r.solved
        /\ skills' = r.skills
        /\ skipped' = r.skipped
        /\ UNCHANGED rating
IsSolve(problem_id, in) ==
    LET r == record_solve(solved, skills, now, problem_id,
                          in.verdict, in.has_time, in.is_slow)
    IN  /\ rec = NoRec
        /\ calls' = calls + 1
        /\ now' = now + 1
        /\ solved' = r.solved
        /\ skills' = r.skills
        /\ UNCHANGED <<rating, skipped>>

\* C27: after a skip the target rating is the one of a last skip of that
\* problem with the feedback given in that skip, and after a record_solve the
\* one of a last solve of that problem with its verdict and speed.
C27_LastOperationDecidesTarget ==
    [][ /\ \A problem_id \in SkipProblemIds, feedback \in Feedbacks :
             IsSkip(problem_id, feedback) =>
                 \A last_solve \in LastSolves', last_skip \in LastSkips' :
                     calculate_target_rating(last_solve, last_skip, rating')
                        = Clamp(SkipTarget([problem_id |-> problem_id,
                                            feedback |-> feedback], rating))
        /\ \A problem_id \in SolveProblemIds, in \in SolveInputs :
             IsSolve(problem_id, in) =>
                 \A last_solve \in LastSolves', last_skip \in LastSkips' :
                     calculate_target_rating(last_solve, last_skip, rating')
                        = Clamp(SolveTarget([problem_id |-> problem_id,
                                             verdict |-> in.verdict,
                                             is_slow_solve |-> in.is_slow], rating)) ]_vars

\* C28: the solved problems hold at most one record per problem, and a sync
\* run a second time with the same submissions inserts nothing and returns 0.
C28_OneSolveRecordPerProblem ==
    /\ \A i, j \in 1..Len(solved) :
          solved[i].problem_id = solved[j].problem_id => i = j
    /\ \A submissions \in Batches :
          LET first == sync_user_solved_history(solved, skills, submissions)
              second == sync_user_solved_history(first.solved, first.skills, submissions)
          IN  /\ second.count = 0
              /\ second.solved = first.solved

\* A sync of the batch that holds two accepted submissions of problem 1 has
\* inserted one record for each of its two local problems, and a second
\* operation has added none.
C28_Witness ==
    /\ calls = 2
    /\ skipped = <<>>
    /\ Len(solved) = 2
    /\ \E i \in 1..Len(solved) : solved[i].problem_id = 1
    /\ \A i \in 1..Len(solved) : solved[i].verdict = "AC" /\ solved[i].solved_at = 0
    /\ skills # <<>>
    /\ \A i \in 1..Len(skills) : skills[i].solve_count = 0

\* The points of a stat for a weak topic and a weak band, less the one for a
\* rating above the user's.
PointsBesideLate(row) ==
    (IF \E j \in 1..Len(row.tags) : row.tags[j] \in ReportedTopics THEN 3 ELSE 0)
      + (IF \E band \in ReportedBands :
               band <= row.problem_rating /\ row.problem_rating < band + 100
         THEN 2 ELSE 0)
      - (IF row.problem_rating > rating THEN 1 ELSE 0)

\* C29: a stat with solved_after_contest has solved; so no problem that
\* get_upsolve_candidates considers has solved_after_contest, every returned
\* candidate holds the point for it, and its score is between 0 and 6.
C29_LateSolveIsSolved ==
    /\ \A i \in 1..Len(stats) : stats[i].solved_after_contest => stats[i].solved
    /\ \A row \in Upsolvable : ~row.solved_after_contest
    /\ IsAnalysis =>
          \A i \in 1..Len(an.upsolve_candidates) :
              /\ an.upsolve_candidates[i].score
                    = PointsBesideLate(StatOf(an.upsolve_candidates[i])) + 1
              /\ an.upsolve_candidates[i].score \in 0..6

\* Problems solved after the contest stand beside a candidate that scores 0:
\* its only point is the one for not being solved after the contest, taken
\* back by its rating above the user's.
C29_Witness ==
    /\ IsAnalysis
    /\ \E i \in 1..Len(stats) : stats[i].solved_after_contest
    /\ \E i \in 1..Len(an.upsolve_candidates) : an.upsolve_candidates[i].score = 0

\* The requests that Codeforces answered, and the calls that have returned.
Answered == {i \in 1..Len(api) : api[i].ok}
Returned == {c \in Callers : callers[c].pc = "done"}

\* C30: two answered requests for the handle are more than one TTL apart;
\* the calls that read the cache within the TTL after an answered request
\* return the same user info; and a call answered from the cache has read an
\* entry that had not expired.
C30_OneRequestPerWindow ==
    /\ \A i, j \in Answered :
          i # j => Abs(api[i].t - api[j].t) > CACHE_TTL_SECONDS
    /\ \A i \in Answered : \A c1, c2 \in Returned :
          /\ api[i].t <= callers[c1].got_at
          /\ callers[c1].got_at <= api[i].t + CACHE_TTL_SECONDS
          /\ api[i].t <= callers[c2].got_at
          /\ callers[c2].got_at <= api[i].t + CACHE_TTL_SECONDS
          => callers[c1].result = callers[c2].result
    /\ \A c \in Returned :
          callers[c].hit => callers[c].got_at <= callers[c].expires_at

====
